---- MODULE Spec2Model ----
(***************************************************************************)
(* Model of komyaka/xraycheck: the relay lifecycle of one probe            *)
(* (lib/checker.py check_key_e2e, lib/speedtest.py speed_test_key), the    *)
(* port pool (lib/port_pool.py), the live-process registry and the signal  *)
(* handler (lib/signals.py), the verdict cache (lib/cache.py) and the main *)
(* thread of vless_checker.py / speedtest_checker.py that drives them.     *)
(***************************************************************************)
EXTENDS Integers, Sequences, FiniteSets, TLC

(* ------------------------------ bounds -------------------------------- *)
\* number of keys of one run (N > MAX_WORKERS so that ports are reused)
NumKeys == 3
\* number of SIGINT/SIGTERM deliveries considered in one run
MaxSignals == 1
\* number of keys of one run in the cache specification
NumCacheKeys == 1
\* last instant of the clock in the cache specification
MaxTime == 4

\* largest REQUESTS_PER_URL and MIN_SUCCESSFUL_REQUESTS of a configuration
MaxRequests == 2
\* number of sources (files, URLs) a cascade can reach
NumFeeds == 4
\* number of child sources the initial source lists
MaxRootChildren == 2
\* number of child sources any other source lists
MaxChildren == 1
\* number of distinct keys (URIs without their #fragment) in lists and files
NumBases == 2
\* number of lines of the list loaded at startup
MaxLines == 3
\* number of lines of the notworkers file at startup
MaxFileLines == 2

\* largest number of URLs of a configuration (TEST_URLS and TEST_URLS_HTTPS)
MaxUrls == 3
\* largest STABILITY_CHECKS of a configuration
MaxRounds == 2

\* largest STRONG_ATTEMPTS of a configuration
MaxStrongAttempts == 3
\* largest response-time limit (STRONG_MAX_RESPONSE_TIME, MAX_RESPONSE_TIME)
\* of a configuration, in units of time
MaxLimit == 2

\* the latencies measured run from 0 to MaxLatency milliseconds
MaxLatency == 2

\* number of lines of the file speedtest_checker reads
MaxSpeedLines == 2

\* number of characters after the scheme of the first line of a feed
MaxTail == 5

\* number of successful GET requests of the check whose end is compared
MaxGets == 2

\* number of test URLs of the check whose requests are counted
MaxCountUrls == 2

(* ------------------------- program constants -------------------------- *)
\* lib/config.py: MAX_WORKERS = _env_int("MAX_WORKERS", 120); 2 in the model
MAX_WORKERS == 2
\* lib/config.py: BASE_PORT = _env_int("BASE_PORT", 20000)
BASE_PORT == 20000
\* lib/config.py: CACHE_TTL = _env_int("CACHE_TTL", 3600); 2 ticks in the model
CACHE_TTL == 2
\* lib/parsing.py: _MAX_CASCADE_DEPTH = 3; 2 in the model
MAX_CASCADE_DEPTH == 2
\* lib/config.py: MAX_RETRIES = _env_int("MAX_RETRIES", 1)
MAX_RETRIES == 1

\* lib/utils.py check_response_valid: a generate_204 answer holds at most
\* 64 bytes
GENERATE_204_MAX_BODY == 64

\* MAX_LATENCY_MS (3000 in the source): the largest latency of a listed key
MAX_LATENCY_MS == 1

\* the size of the top list, the literal 100 of _create_top100_file
TOP100 == 2

\* MIN_SPEED_THRESHOLD_MBPS (2.5 in the source)
MIN_SPEED_THRESHOLD_MBPS == 2

\* the numerator of the score of metric throughput in latency mode
INVERSE_LATENCY == 100000

Keys == 1..NumKeys
Ports == BASE_PORT..(BASE_PORT + MAX_WORKERS - 1)
NoPort == 0
NoEntry == [result |-> "none", timestamp |-> 0]

VARIABLES
    program,            \* "check" (vless_checker.py) or "speedtest" (speedtest_checker.py)
    debugFirst,         \* DEBUG_FIRST_FAIL
    cacheOn,            \* ENABLE_CACHE (and cache is not None)
    strongMode,         \* STRONG_STYLE_TEST
    port_pool,          \* port_pool._port_pool, a list
    active_processes,   \* signals.active_processes, a list of <<proc, port>>; proc is named by its key
    pc,                 \* position of each key task
    port,               \* local `port` of each task (NoPort: none taken)
    proc,               \* the relay of each task: "none" (proc is None), "alive", "dead"
    killed,             \* kill_xray_process has been called on the task's relay
    file,               \* scratch config file of each task: "none", "exists", "deleted"
    result,             \* what the task returned: "none", "live", "dead", "raised"
    cached,             \* metrics["cached"] of the returned verdict
    how,                \* history: the path on which the task left the probe ("none": not yet decided)
    metrics_response_times, \* metrics["response_times"] of the key: "empty", "tcp" (the connect
                        \* latency alone), "requests" (what the requests appended)
    wrote,              \* history: the task stored an entry for its key in the cache
    cache,              \* the in-memory verdict cache, one slot per key hash
    now,                \* time.time()
    returns,            \* history: number of return_port calls made with the task's port
    collected,          \* the main thread consumed the task's future
    mainpc,             \* position of the main thread
    hpc,                \* position of signal_handler ("idle": not running)
    hidx,               \* index of the list iterator of cleanup_processes
    hcur,               \* loop variables (proc, port) of cleanup_processes
    interrupted,        \* signals.interrupted
    main_interrupted,   \* the name `interrupted` imported into vless_checker
    signals,            \* number of signals delivered so far
    available_keys,     \* the list bound to vless_checker.available_keys
    sig_available_keys, \* the list bound to signals.available_keys
    output_path_set,    \* vless_checker.output_path_global is non-empty
    sig_output_path_set,\* signals.output_path_global is non-empty
    partial,            \* content of the _partial file, a list of keys (empty: not written)
    saved,              \* save_results_and_exit has run
    submitted,          \* the key tasks have been submitted to the ThreadPoolExecutor
    mode,               \* MODE: "single", "merge" or "notworkers"
    text,               \* the lines of the list loaded at startup (single / merge)
    nwfile,             \* the lines of NOTWORKERS_FILE
    nwstart,            \* history: load_notworkers(NOTWORKERS_FILE) at startup
    keys,               \* main's `keys`: the candidates, a list of links
    npc,                \* position of main in a run seen key by key
    cidx,               \* number of candidates whose check has ended
    all_metrics,        \* the links that are keys of main's all_metrics
    passed_links,       \* set(available_keys), as links
    verdicts,           \* history: how the check of each candidate ended
    available,          \* main's `available`: a list of << link, latency in ms >>
    outfile,            \* the lines of the primary output file
    top100file,         \* the lines of the top-100 output file
    files_written,      \* history: the files this run has written
    exitcode,           \* exit status of the program (-1: still running)
    feedText,           \* the lines of each source of the cascade
    feedChildren,       \* the child sources each source lists, in file order
    fails,              \* the sources whose fetch / read fails
    stop_on_error,      \* _gather_keys(stop_on_error)
    gqueue,             \* _gather_keys: queue, a list of << source, depth >>
    gvisited,           \* _gather_keys: visited
    gscheduled,         \* _gather_keys: scheduled
    seen_links,         \* _gather_keys: seen_links
    gresult,            \* _gather_keys: result
    gpc,                \* position of _gather_keys: "off", "loop", "done", "raised"
    giters,             \* history: number of iterations of `while queue`
    gorder,             \* history: the sources read, in order, as << source, depth >>
    flat,               \* history: the keys of the sources read, in the order read
    REQUESTS_PER_URL,   \* lib/config.py: REQUESTS_PER_URL (environment)
    MIN_SUCCESSFUL_REQUESTS, \* lib/config.py: MIN_SUCCESSFUL_REQUESTS (environment)
    outcome,            \* what make_request gives for each request and attempt
    rpc,                \* position in the loop over the requests of one URL
    request_num,        \* for request_num in range(REQUESTS_PER_URL)
    retry_attempt,      \* for retry_attempt in range(MAX_RETRIES + 1)
    request_results,    \* request_results of the URL
    request_successful, \* request_successful of the request
    url_successful,     \* url_successful of the URL
    made,                \* history: the << request_num, retry_attempt >> sent
    STRICT_MODE, \* lib/config.py: STRICT_MODE (environment)
    STRICT_MODE_REQUIRE_ALL, \* lib/config.py: STRICT_MODE_REQUIRE_ALL (environment)
    REQUIRE_HTTPS, \* lib/config.py: REQUIRE_HTTPS (environment)
    MIN_SUCCESSFUL_URLS, \* lib/config.py: MIN_SUCCESSFUL_URLS (environment)
    STABILITY_CHECKS, \* lib/config.py: STABILITY_CHECKS (environment)
    all_urls, \* all_urls: the type ("http", "https") of each URL, in order
    urlOk, \* whether the requests to a URL make it successful, per round and URL
    vpc, \* position in the rounds: "off", "url", "round_end", "verdict", "returned"
    stability_check, \* for stability_check in range(STABILITY_CHECKS)
    uidx, \* position of `for url, url_type in all_urls`
    url_results, \* url_results of the round: "unvisited", "ok", "fail" per URL
    successful_urls_count, \* successful_urls_count of the round
    all_url_results, \* all_url_results: per URL, its results of the rounds that visited it
    stability_results, \* stability_results
    is_available, \* the verdict returned: "none", "live", "dead"
    round_log, \* history: url_results of every finished round
    metrics_successful_urls, \* metrics["successful_urls"] of the check
    metrics_failed_urls, \* metrics["failed_urls"] of the check
    STRONG_ATTEMPTS, \* lib/config.py: STRONG_ATTEMPTS (environment)
    STRONG_MAX_RESPONSE_TIME, \* lib/config.py: STRONG_MAX_RESPONSE_TIME (environment)
    MAX_RESPONSE_TIME, \* lib/config.py: MAX_RESPONSE_TIME (environment)
    gets, \* what make_request gives for each attempt: [ok, elapsed]
    spc, \* position in the strict test: "off", "attempt", "after", "returned"
    attempt, \* for attempt in range(attempts_needed)
    total_requests, \* metrics["total_requests"]
    response_times, \* metrics["response_times"]
    strong_result, \* the verdict returned: "none", "live", "dead"
    url_generate_204, \* "generate_204" in url
    status_code, \* response.status_code
    content_len, \* len(response.content)
    min_size, \* min_size
    valid, \* what check_response_valid returned: "none", "true", "false"
    SPEED_TEST_MODE, \* SPEED_TEST_MODE: "latency", "quick" or "full"
    SPEED_TEST_METRIC, \* SPEED_TEST_METRIC: "latency", "throughput" or "hybrid"
    download_url_small, \* SPEED_TEST_DOWNLOAD_URL_SMALL is not empty
    download_url_medium, \* SPEED_TEST_DOWNLOAD_URL_MEDIUM is not empty
    lines, \* speedtest_checker: the protocol of each line of the input file
    tested, \* the lines whose future has completed
    results, \* speedtest_checker: results, a list of << line, score >>
    score_kinds, \* history: per pair appended to results, the return statement that made its score
    reverse, \* speedtest_checker: reverse ("none" before the sort)
    out_lines, \* speedtest_checker: out_lines, the lines written ("none": no file)
    stpc, \* position of speedtest_checker: "test" or "done"
    sub_plain, \* history: the text the feed stands for, a list of character codes
    sub_sent, \* how the feed serves it: "plain", "standard" or "urlsafe" (Base64 alphabet)
    sub_text, \* decode_subscription_content: text, the body as served
    sub_tried, \* history: a Base64 decoder was called on the body
    sub_result, \* what decode_subscription_content returned
    sub_pc, \* position of the decoding: "body" or "done"
    TEST_POST_REQUESTS, \* TEST_POST_REQUESTS
    MIN_AVG_RESPONSE_TIME, \* MIN_AVG_RESPONSE_TIME
    get_response_times, \* metrics["response_times"] after the URL loop, the same in both executions
    get_total, \* metrics["total_requests"] after the URL loop, the same in both executions
    urls_available, \* the verdict the URL results give, the same in both executions
    post_outcome, \* per execution, what the POST request does: ok and post_elapsed
    m_total_requests, \* per execution, metrics["total_requests"]
    m_successful_requests, \* per execution, metrics["successful_requests"]
    m_response_times, \* per execution, metrics["response_times"]
    verdict_alive, \* per execution, the verdict returned ("none": still running)
    ppc, \* per execution, the position: "post", "gate" or "done"
    CHECK_GEOLOCATION, \* lib/config.py: CHECK_GEOLOCATION (environment)
    metrics_total_requests, \* metrics["total_requests"] of the check
    metrics_successful_requests, \* metrics["successful_requests"] of the check
    issued, \* history: the number of calls of make_request
    geo_lookups, \* history: the number of calls of get_geolocation
    kpc \* position of the check: "off", "strong", "get", "post", "geo" or "returned"

vars == << program, debugFirst, cacheOn, strongMode, port_pool, active_processes,
           pc, port, proc, killed, file, result, cached, how, wrote,
           metrics_response_times, cache, now,
           returns, collected, mainpc, hpc, hidx, hcur, interrupted,
           main_interrupted, signals, available_keys, sig_available_keys,
           output_path_set, sig_output_path_set, partial, saved, submitted,
           mode, text, nwfile, nwstart, keys, npc, cidx, all_metrics,
           passed_links, verdicts, available, outfile, top100file,
           files_written, exitcode,
           feedText, feedChildren, fails, stop_on_error, gqueue, gvisited,
           gscheduled, seen_links, gresult, gpc, giters, gorder, flat,
           REQUESTS_PER_URL, MIN_SUCCESSFUL_REQUESTS, outcome, rpc, request_num,
           retry_attempt, request_results, request_successful, url_successful,
           made,
           STRICT_MODE, STRICT_MODE_REQUIRE_ALL, REQUIRE_HTTPS, MIN_SUCCESSFUL_URLS, STABILITY_CHECKS, all_urls, urlOk, vpc, stability_check, uidx, url_results, successful_urls_count, all_url_results, stability_results, is_available, round_log, metrics_successful_urls, metrics_failed_urls,
           STRONG_ATTEMPTS, STRONG_MAX_RESPONSE_TIME, MAX_RESPONSE_TIME, gets, spc, attempt, total_requests, response_times, strong_result,
           url_generate_204, status_code, content_len, min_size, valid,
           SPEED_TEST_MODE, SPEED_TEST_METRIC, download_url_small, download_url_medium, lines, tested, results, score_kinds, reverse, out_lines, stpc,
           sub_plain, sub_sent, sub_text, sub_tried, sub_result, sub_pc,
           TEST_POST_REQUESTS, MIN_AVG_RESPONSE_TIME, get_response_times, get_total, urls_available, post_outcome, m_total_requests, m_successful_requests, m_response_times, verdict_alive, ppc,
           CHECK_GEOLOCATION, metrics_total_requests, metrics_successful_requests, issued, geo_lookups, kpc >>

taskVars == << pc, port, proc, killed, file, result, cached, how, wrote,
              metrics_response_times >>
mainVars == << collected, mainpc, available_keys, output_path_set, saved, submitted >>
handlerVars == << hpc, hidx, hcur, interrupted, signals, partial >>
\* the variables of a run seen key by key (ingestion, notworkers)
nwVars == << mode, text, nwfile, nwstart, keys, npc, cidx, all_metrics,
             passed_links, verdicts, available, outfile, top100file,
             files_written, exitcode >>
\* the variables of the cascading loader
ingestVars == << feedText, feedChildren, fails, stop_on_error, gqueue, gvisited,
                 gscheduled, seen_links, gresult, gpc, giters, gorder, flat >>
\* the variables of the requests to one URL
reqVars == << REQUESTS_PER_URL, MIN_SUCCESSFUL_REQUESTS, outcome, rpc, request_num,
              retry_attempt, request_results, request_successful, url_successful,
              made >>
\* the variables of the stability rounds of one probe
roundVars == << STRICT_MODE, STRICT_MODE_REQUIRE_ALL, REQUIRE_HTTPS, MIN_SUCCESSFUL_URLS, STABILITY_CHECKS, all_urls, urlOk, vpc, stability_check, uidx, url_results, successful_urls_count, all_url_results, stability_results, is_available, round_log, metrics_successful_urls, metrics_failed_urls >>
\* the variables of the strict (mobile client) test of one probe
strongVars == << STRONG_ATTEMPTS, STRONG_MAX_RESPONSE_TIME, MAX_RESPONSE_TIME, gets, spc, attempt, total_requests, response_times, strong_result >>
\* the variables of one call of check_response_valid
validVars == << url_generate_204, status_code, content_len, min_size, valid >>
\* the variables of speedtest_checker
speedVars == << SPEED_TEST_MODE, SPEED_TEST_METRIC, download_url_small, download_url_medium, lines, tested, results, score_kinds, reverse, out_lines, stpc >>
\* the variables of the decoding of one feed body
subVars == << sub_plain, sub_sent, sub_text, sub_tried, sub_result, sub_pc >>
\* the variables of two executions of the end of one check
postVars == << TEST_POST_REQUESTS, MIN_AVG_RESPONSE_TIME, get_response_times, get_total, urls_available, post_outcome, m_total_requests, m_successful_requests, m_response_times, verdict_alive, ppc >>
\* the variables of the request counters of one probe
countVars == << CHECK_GEOLOCATION, metrics_total_requests, metrics_successful_requests, issued, geo_lookups, kpc >>
\* the variables of the parts of a probe and of a run modelled on their own
unitVars == << roundVars, strongVars, validVars, speedVars, subVars, postVars, countVars >>
\* what no step of the relay lifecycle, of the main loop or of the handler touches
configVars == << program, debugFirst, cacheOn, strongMode, main_interrupted,
                 sig_available_keys, sig_output_path_set, nwVars, ingestVars,
                 reqVars, unitVars >>

(* ------------------------------ lists --------------------------------- *)
RECURSIVE IndexOf(_, _, _)
IndexOf(s, e, i) ==
    IF i > Len(s) THEN 0
    ELSE IF s[i] = e THEN i ELSE IndexOf(s, e, i + 1)

InList(s, e) == IndexOf(s, e, 1) # 0

\* list.remove(e): removes the first occurrence (the caller handles ValueError)
ListRemove(s, e) ==
    LET i == IndexOf(s, e, 1)
    IN  IF i = 0 THEN s
        ELSE SubSeq(s, 1, i - 1) \o SubSeq(s, i + 1, Len(s))

Range(s) == { s[i] : i \in 1..Len(s) }

(* ---------------------------- port pool ------------------------------- *)
\* _port_pool = list(range(BASE_PORT, BASE_PORT + MAX_WORKERS))
InitialPool == [ i \in 1..MAX_WORKERS |-> BASE_PORT + i - 1 ]

\* take_port(): None when the pool is empty, else _port_pool.pop()
take_port(pool) == IF pool = << >> THEN NoPort ELSE pool[Len(pool)]
PoolAfterTake(pool) == IF pool = << >> THEN pool ELSE SubSeq(pool, 1, Len(pool) - 1)

\* return_port(port): _port_pool.append(port)
return_port(pool, p) == Append(pool, p)

(* ------------------------------ cache --------------------------------- *)
\* check_cache with the freshness test inverted (an entry counts as valid once
\* it is CACHE_TTL old)
check_cache_stale(k) ==
    IF ~cacheOn \/ cache[k] = NoEntry THEN "none"
    ELSE IF now - cache[k].timestamp >= CACHE_TTL THEN cache[k].result
    ELSE "none"

\* check_cache(key_hash, cache): the cached result, or "none"
check_cache(k) ==
    IF ~cacheOn \/ cache[k] = NoEntry THEN "none"
    ELSE IF now - cache[k].timestamp < CACHE_TTL THEN cache[k].result
    ELSE "none"

\* cache[key_hash] = {"result": ok, "timestamp": time.time()}
CacheWrite(k, ok) ==
    [cache EXCEPT ![k] = [result |-> IF ok THEN "live" ELSE "dead", timestamp |-> now]]

(* --------------------------- scheduling ------------------------------- *)
\* the first key is probed by the main thread itself (vless_checker.main, DEBUG_FIRST_FAIL)
IsDebug(k) == program = "check" /\ debugFirst /\ k = 1

RunningPcs == {"cfg", "spawn", "register", "probe", "dereg",
               "fin_remove", "fin_kill", "fin_unlink", "fin_return"}
FinishedPcs == {"done", "aborted"}

\* number of worker threads of the ThreadPoolExecutor that are inside a task
Running == Cardinality({ k \in Keys : ~IsDebug(k) /\ pc[k] \in RunningPcs })

\* a queued task starts: the debug-slot key when main calls check_key_e2e, a
\* submitted key when a worker of the pool is free (work queue is FIFO)
CanStart(k) ==
    /\ pc[k] = "queued"
    /\ IF IsDebug(k)
       THEN mainpc = "debug" /\ hpc = "idle"
       ELSE /\ submitted
            /\ Running < MAX_WORKERS
            /\ \A j \in Keys : (j < k /\ ~IsDebug(j)) => pc[j] # "queued"

\* the thread of task k is at `at` and free to take its next step (the main
\* thread does not advance its own probe while it runs the signal handler)
CanStep(k, at) == pc[k] = at /\ (IsDebug(k) => hpc = "idle")

(* ------------------- check_key_e2e / speed_test_key ------------------- *)
\* cache pre-flight hit: return (vless_line, cached_result, metrics{cached: True})
CacheHit(k) ==
    /\ CanStart(k)
    /\ program = "check"
    /\ check_cache(k) # "none"
    /\ pc' = [pc EXCEPT ![k] = "done"]
    /\ result' = [result EXCEPT ![k] = check_cache(k)]
    /\ cached' = [cached EXCEPT ![k] = TRUE]
    /\ how' = [how EXCEPT ![k] = "hit"]
    /\ UNCHANGED metrics_response_times
    /\ UNCHANGED << port, proc, killed, file, wrote, cache, now, returns,
                    port_pool, active_processes >>
    /\ UNCHANGED << mainVars, handlerVars, configVars >>

\* ParseFail with the parse moved after take_port: the port is leased, then
\* the unparsable key is reported dead without giving the port back
ParseFail_after_lease(k) ==
    /\ CanStart(k)
    /\ check_cache(k) = "none"
    /\ port_pool # << >>
    /\ pc' = [pc EXCEPT ![k] = "done"]
    /\ result' = [result EXCEPT ![k] = "dead"]
    /\ how' = [how EXCEPT ![k] = "parse"]
    /\ UNCHANGED metrics_response_times
    /\ port' = [port EXCEPT ![k] = take_port(port_pool)]
    /\ port_pool' = PoolAfterTake(port_pool)
    /\ UNCHANGED << proc, killed, file, cached, wrote, cache, now, returns,
                    active_processes >>
    /\ UNCHANGED << mainVars, handlerVars, configVars >>

\* parse_proxy_url(line) is None: return dead (check) / None (speedtest)
ParseFail(k) ==
    /\ CanStart(k)
    /\ check_cache(k) = "none"
    /\ pc' = [pc EXCEPT ![k] = "done"]
    /\ result' = [result EXCEPT ![k] = "dead"]
    /\ how' = [how EXCEPT ![k] = "parse"]
    /\ UNCHANGED metrics_response_times
    /\ UNCHANGED << port, proc, killed, file, cached, wrote, cache, now, returns,
                    port_pool, active_processes >>
    /\ UNCHANGED << mainVars, handlerVars, configVars >>

\* hysteria / hysteria2: TCP connect only, cache updated, no port, no relay
\* response_times is left as it was, whatever the connect gave
hysteria_response_times_unset(ok) == "empty"

\* check_key_e2e, hysteria branch: if ok: metrics["response_times"] = [latency]
hysteria_response_times(ok) == IF ok THEN "tcp" ELSE "empty"

Hysteria(k) ==
    /\ CanStart(k)
    /\ check_cache(k) = "none"
    /\ \E ok \in BOOLEAN :
         /\ result' = [result EXCEPT ![k] = IF ok THEN "live" ELSE "dead"]
         /\ cache' = IF cacheOn /\ program = "check" THEN CacheWrite(k, ok) ELSE cache
         /\ metrics_response_times' =
               IF program = "check"
               THEN [metrics_response_times EXCEPT ![k] = hysteria_response_times(ok)]
               ELSE metrics_response_times
    /\ wrote' = [wrote EXCEPT ![k] = cacheOn /\ program = "check"]
    /\ pc' = [pc EXCEPT ![k] = "done"]
    /\ how' = [how EXCEPT ![k] = "tcp"]
    /\ UNCHANGED << port, proc, killed, file, cached, now, returns,
                    port_pool, active_processes >>
    /\ UNCHANGED << mainVars, handlerVars, configVars >>

\* port = take_port(); if port is None: return dead
TakePort(k) ==
    /\ CanStart(k)
    /\ check_cache(k) = "none"
    /\ LET p == take_port(port_pool)
       IN  IF p = NoPort
           THEN /\ pc' = [pc EXCEPT ![k] = "done"]
                /\ result' = [result EXCEPT ![k] = "dead"]
                /\ how' = [how EXCEPT ![k] = "noport"]
                /\ UNCHANGED metrics_response_times
                /\ UNCHANGED << port, port_pool >>
           ELSE /\ pc' = [pc EXCEPT ![k] = "cfg"]
                /\ port' = [port EXCEPT ![k] = p]
                /\ port_pool' = PoolAfterTake(port_pool)
                /\ UNCHANGED metrics_response_times
                /\ UNCHANGED << result, how >>
    /\ UNCHANGED << proc, killed, file, cached, wrote, cache, now, returns,
                    active_processes >>
    /\ UNCHANGED << mainVars, handlerVars, configVars >>

\* build_xray_config; tempfile.mkstemp; json.dump into the scratch file.
\*   "mkstemp": mkstemp raises (it is outside every try): the exception leaves
\*              the function, nothing is cleaned up
\*   "write":   the write raises: os.close, return_port(port), return dead
WriteConfig(k) ==
    /\ CanStep(k, "cfg")
    /\ \E o \in {"ok", "mkstemp", "write"} :
         CASE o = "ok" ->
                /\ file' = [file EXCEPT ![k] = "exists"]
                /\ pc' = [pc EXCEPT ![k] = "spawn"]
                /\ UNCHANGED metrics_response_times
                /\ UNCHANGED << result, how, port_pool, returns >>
           [] o = "mkstemp" ->
                /\ pc' = [pc EXCEPT ![k] = "done"]
                /\ result' = [result EXCEPT ![k] = "raised"]
                /\ how' = [how EXCEPT ![k] = "mkstemp"]
                /\ UNCHANGED metrics_response_times
                /\ UNCHANGED << file, port_pool, returns >>
           [] o = "write" ->
                /\ file' = [file EXCEPT ![k] = "exists"]
                /\ port_pool' = return_port(port_pool, port[k])
                /\ returns' = [returns EXCEPT ![k] = @ + 1]
                /\ pc' = [pc EXCEPT ![k] = "done"]
                /\ result' = [result EXCEPT ![k] = "dead"]
                /\ how' = [how EXCEPT ![k] = "write"]
                /\ UNCHANGED metrics_response_times
    /\ UNCHANGED << port, proc, killed, cached, wrote, cache, now, active_processes >>
    /\ UNCHANGED << mainVars, handlerVars, configVars >>

\* proc = run_xray(config_path): Popen, or FileNotFoundError (caught: return
\* dead, then finally with proc None)
Spawn(k) ==
    /\ CanStep(k, "spawn")
    /\ \E found \in BOOLEAN :
         IF found
         THEN /\ proc' = [proc EXCEPT ![k] = "alive"]
              /\ pc' = [pc EXCEPT ![k] = "register"]
              /\ UNCHANGED metrics_response_times
              /\ UNCHANGED << result, how >>
         ELSE /\ pc' = [pc EXCEPT ![k] = "fin_unlink"]
              /\ result' = [result EXCEPT ![k] = "dead"]
              /\ how' = [how EXCEPT ![k] = "notfound"]
              /\ UNCHANGED metrics_response_times
              /\ UNCHANGED proc
    /\ UNCHANGED << port, killed, file, cached, wrote, cache, now, returns,
                    port_pool, active_processes >>
    /\ UNCHANGED << mainVars, handlerVars, configVars >>

\* active_processes.append((proc, port))
Register(k) ==
    /\ CanStep(k, "register")
    /\ active_processes' = Append(active_processes, << k, port[k] >>)
    /\ pc' = [pc EXCEPT ![k] = "probe"]
    /\ UNCHANGED metrics_response_times
    /\ UNCHANGED << port, proc, killed, file, result, cached, how, wrote, cache, now,
                    returns, port_pool >>
    /\ UNCHANGED << mainVars, handlerVars, configVars >>

\* the ways the body of the try can end once the relay is registered:
\*   "exited"     proc.poll() is not None after the startup wait
\*   "live"       the probe passed
\*   "dead_final" normal mode, dead at the final evaluation (after the cache write)
\*   "dead_early" dead at a return before the cache write (strict mobile-client
\*                mode; geolocation, strict-all, stability, average time)
\*   "exception"  an exception caught by `except Exception`
ProbeOutcomes(k) ==
    {"exited", "dead_early", "exception"}
      \cup (IF proc[k] = "alive" THEN {"live"} ELSE {})
      \cup (IF program = "check" /\ ~strongMode THEN {"dead_final"} ELSE {})

\* the probe writes the cache only at the end of the normal-mode evaluation
WritesCache(o) ==
    program = "check" /\ cacheOn /\ ~strongMode /\ o \in {"live", "dead_final"}

\* startup wait and probe requests, up to the statement that deregisters
Probe(k) ==
    /\ CanStep(k, "probe")
    /\ \E o \in ProbeOutcomes(k) :
         /\ result' = [result EXCEPT ![k] = IF o = "live" THEN "live" ELSE "dead"]
         /\ proc' = [proc EXCEPT ![k] = IF o = "exited" THEN "dead" ELSE @]
         /\ how' = [how EXCEPT ![k] = IF o \in {"exited", "exception"} THEN o ELSE "verdict"]
         /\ metrics_response_times' = [metrics_response_times EXCEPT ![k] =
               IF program = "check" /\ o \notin {"exited", "exception"}
               THEN "requests" ELSE @]
         /\ cache' = IF WritesCache(o) THEN CacheWrite(k, o = "live") ELSE cache
         /\ wrote' = [wrote EXCEPT ![k] = WritesCache(o)]
         /\ pc' = [pc EXCEPT ![k] =
                     IF program = "check" /\ o # "exception" THEN "dereg" ELSE "fin_remove"]
    /\ UNCHANGED << port, killed, file, cached, now, returns, port_pool,
                    active_processes >>
    /\ UNCHANGED << mainVars, handlerVars, configVars >>

\* check_key_e2e only: active_processes.remove((proc, port)) before each return
\* of the try body; ValueError (entry gone) is caught by `except Exception`,
\* which returns dead
Deregister(k) ==
    /\ CanStep(k, "dereg")
    /\ IF InList(active_processes, << k, port[k] >>)
       THEN /\ active_processes' = ListRemove(active_processes, << k, port[k] >>)
            /\ UNCHANGED result
       ELSE /\ result' = [result EXCEPT ![k] = "dead"]
            /\ UNCHANGED active_processes
    /\ pc' = [pc EXCEPT ![k] = "fin_remove"]
    /\ UNCHANGED metrics_response_times
    /\ UNCHANGED << port, proc, killed, file, cached, how, wrote, cache, now, returns,
                    port_pool >>
    /\ UNCHANGED << mainVars, handlerVars, configVars >>

\* finally, proc is not None: try: active_processes.remove(...) except ValueError: pass
FinRemove(k) ==
    /\ CanStep(k, "fin_remove")
    /\ active_processes' = ListRemove(active_processes, << k, port[k] >>)
    /\ pc' = [pc EXCEPT ![k] = "fin_kill"]
    /\ UNCHANGED metrics_response_times
    /\ UNCHANGED << port, proc, killed, file, result, cached, how, wrote, cache, now,
                    returns, port_pool >>
    /\ UNCHANGED << mainVars, handlerVars, configVars >>

\* kill_xray_process(proc): returns at once when the relay has exited, else
\* terminate / wait / kill
kill_xray_process(k) ==
    /\ killed' = [killed EXCEPT ![k] = TRUE]
    /\ proc' = [proc EXCEPT ![k] = "dead"]

\* finally: kill_xray_process(proc, drain_stderr=True)
FinKill(k) ==
    /\ CanStep(k, "fin_kill")
    /\ kill_xray_process(k)
    /\ pc' = [pc EXCEPT ![k] = "fin_unlink"]
    /\ UNCHANGED metrics_response_times
    /\ UNCHANGED << port, file, result, cached, how, wrote, cache, now, returns,
                    port_pool, active_processes >>
    /\ UNCHANGED << mainVars, handlerVars, configVars >>

\* finally: try: os.unlink(config_path) except FileNotFoundError: pass
FinUnlink(k) ==
    /\ CanStep(k, "fin_unlink")
    /\ file' = [file EXCEPT ![k] = "deleted"]
    /\ pc' = [pc EXCEPT ![k] = "fin_return"]
    /\ UNCHANGED metrics_response_times
    /\ UNCHANGED << port, proc, killed, result, cached, how, wrote, cache, now, returns,
                    port_pool, active_processes >>
    /\ UNCHANGED << mainVars, handlerVars, configVars >>

\* finally: return_port(port)
FinReturn(k) ==
    /\ CanStep(k, "fin_return")
    /\ port_pool' = return_port(port_pool, port[k])
    /\ returns' = [returns EXCEPT ![k] = @ + 1]
    /\ pc' = [pc EXCEPT ![k] = "done"]
    /\ UNCHANGED metrics_response_times
    /\ UNCHANGED << port, proc, killed, file, result, cached, how, wrote, cache, now,
                    active_processes >>
    /\ UNCHANGED << mainVars, handlerVars, configVars >>

(* ------------------------- the main thread ---------------------------- *)
\* the pool has nothing left to run: every submitted task has finished
Drained == \A k \in Keys : (~IsDebug(k) /\ submitted) => pc[k] \in FinishedPcs \cup {"absent"}

\* available_keys.append(link) when the key passed and latency <= MAX_LATENCY_MS
Collected(k, latencyOk) ==
    IF result[k] = "live" /\ latencyOk /\ program = "check"
    THEN Append(available_keys, k) ELSE available_keys

\* vless_checker.main: the first key returned from check_key_e2e(link0, debug=True);
\* an exception raised by it leaves main; then the rest is submitted to the pool
CollectDebug ==
    /\ mainpc = "debug" /\ hpc = "idle"
    /\ pc[1] = "done" /\ ~collected[1]
    /\ \E latencyOk \in BOOLEAN :
         available_keys' = Collected(1, latencyOk)
    /\ collected' = [collected EXCEPT ![1] = TRUE]
    /\ IF result[1] = "raised"
       THEN mainpc' = "exiting" /\ UNCHANGED submitted
       ELSE IF \A k \in Keys \ {1} : pc[k] = "absent"
            THEN mainpc' = "save" /\ UNCHANGED submitted
            ELSE mainpc' = "loop" /\ submitted' = TRUE
    /\ UNCHANGED << output_path_set, saved >>
    /\ UNCHANGED << taskVars, cache, now, returns, port_pool, active_processes >>
    /\ UNCHANGED << handlerVars, configVars >>

\* for future in as_completed(futures): if interrupted: break; ... future.result()
Collect(k) ==
    /\ mainpc = "loop" /\ hpc = "idle"
    /\ ~IsDebug(k) /\ pc[k] = "done" /\ ~collected[k]
    /\ IF main_interrupted
       THEN /\ mainpc' = "save"
            /\ UNCHANGED << collected, available_keys >>
       ELSE /\ \E latencyOk \in BOOLEAN :
                 available_keys' = Collected(k, latencyOk)
            /\ collected' = [collected EXCEPT ![k] = TRUE]
            /\ mainpc' = IF \A j \in Keys \ {k} : collected[j] \/ pc[j] = "absent"
                         THEN "save" ELSE "loop"
    /\ UNCHANGED << output_path_set, saved, submitted >>
    /\ UNCHANGED << taskVars, cache, now, returns, port_pool, active_processes >>
    /\ UNCHANGED << handlerVars, configVars >>

\* save_results_and_exit (vless_checker) / the result writers (speedtest_checker),
\* reached after the `with ThreadPoolExecutor` block, whose exit joins the workers
MainSave ==
    /\ mainpc = "save" /\ hpc = "idle"
    /\ Drained
    /\ saved' = TRUE
    /\ mainpc' = "exiting"
    /\ UNCHANGED << collected, available_keys, output_path_set, submitted >>
    /\ UNCHANGED << taskVars, cache, now, returns, port_pool, active_processes >>
    /\ UNCHANGED << handlerVars, configVars >>

\* SystemExit reached the end of the debug-slot probe's finally: main exits
UnwindDone ==
    /\ mainpc = "unwind" /\ hpc = "idle"
    /\ pc[1] = "done"
    /\ mainpc' = "exiting"
    /\ UNCHANGED << collected, available_keys, output_path_set, saved, submitted >>
    /\ UNCHANGED << taskVars, cache, now, returns, port_pool, active_processes >>
    /\ UNCHANGED << handlerVars, configVars >>

\* interpreter exit: the worker threads are joined, then atexit runs
\* cleanup_processes (for proc, port in active_processes: kill, return_port; clear)
AtExit ==
    /\ mainpc = "exiting" /\ hpc = "idle"
    /\ Drained
    /\ LET ap == active_processes
           n(k) == Cardinality({ i \in 1..Len(ap) : ap[i][1] = k })
       IN  /\ killed' = [k \in Keys |-> killed[k] \/ n(k) > 0]
           /\ proc' = [k \in Keys |-> IF n(k) > 0 THEN "dead" ELSE proc[k]]
           /\ returns' = [k \in Keys |-> returns[k] + n(k)]
           /\ port_pool' = port_pool \o [ i \in 1..Len(ap) |-> ap[i][2] ]
    /\ active_processes' = << >>
    /\ mainpc' = "exited"
    /\ UNCHANGED metrics_response_times
    /\ UNCHANGED << pc, port, file, result, cached, how, wrote, cache, now >>
    /\ UNCHANGED << collected, available_keys, output_path_set, saved, submitted >>
    /\ UNCHANGED << handlerVars, configVars >>

(* ------------------------- signal_handler ----------------------------- *)
\* SIGINT / SIGTERM: the handler starts in the main thread; interrupted = True
Signal ==
    /\ hpc = "idle"
    /\ signals < MaxSignals
    /\ mainpc \in {"debug", "loop", "save", "unwind", "exiting"}
    /\ interrupted' = TRUE
    /\ signals' = signals + 1
    /\ hpc' = "iter"
    /\ hidx' = 1
    /\ UNCHANGED << hcur, partial >>
    /\ UNCHANGED << taskVars, cache, now, returns, port_pool, active_processes >>
    /\ UNCHANGED << mainVars, configVars >>

\* cleanup_processes: next (proc, port) of the list iterator, kill_xray_process(proc)
HandlerKill ==
    /\ hpc = "iter"
    /\ IF hidx <= Len(active_processes)
       THEN /\ hcur' = active_processes[hidx]
            /\ hidx' = hidx + 1
            /\ kill_xray_process(active_processes[hidx][1])
            /\ hpc' = "ret"
       ELSE /\ hpc' = "clear"
            /\ UNCHANGED << hcur, hidx, killed, proc >>
    /\ UNCHANGED << interrupted, signals, partial >>
    /\ UNCHANGED metrics_response_times
    /\ UNCHANGED << pc, port, file, result, cached, how, wrote >>
    /\ UNCHANGED << cache, now, returns, port_pool, active_processes >>
    /\ UNCHANGED << mainVars, configVars >>

\* cleanup_processes: return_port(port)
HandlerReturn ==
    /\ hpc = "ret"
    /\ port_pool' = return_port(port_pool, hcur[2])
    /\ returns' = [returns EXCEPT ![hcur[1]] = @ + 1]
    /\ hcur' = << 0, NoPort >>
    /\ hpc' = "iter"
    /\ UNCHANGED << hidx, interrupted, signals, partial >>
    /\ UNCHANGED << taskVars, cache, now, active_processes >>
    /\ UNCHANGED << mainVars, configVars >>

\* cleanup_processes: active_processes.clear()
HandlerClear ==
    /\ hpc = "clear"
    /\ active_processes' = << >>
    /\ hpc' = "exit"
    /\ UNCHANGED << hidx, hcur, interrupted, signals, partial >>
    /\ UNCHANGED << taskVars, cache, now, returns, port_pool >>
    /\ UNCHANGED << mainVars, configVars >>

\* save_partial_results: reads the globals of lib.signals
save_partial_results ==
    IF sig_available_keys # << >> /\ sig_output_path_set
    THEN sig_available_keys ELSE partial

\* where SystemExit, raised in the main thread, can take the debug-slot probe:
\* inside the try it runs the finally clause; before the try or inside the
\* finally clause it leaves the function at once. At the two ends of the try
\* ("spawn": the config is written, run_xray not yet called; "fin_remove": the
\* body has ended, the finally has removed nothing yet) the signal can land on
\* either side.
UnwindPc(p) ==
    CASE p = "queued" -> {"aborted"}
      [] p = "cfg" -> {"aborted"}
      [] p = "spawn" -> {"fin_unlink", "aborted"}
      [] p \in {"register", "probe", "dereg"} -> {"fin_remove"}
      [] p = "fin_remove" -> {"fin_remove", "aborted"}
      [] p \in {"fin_kill", "fin_unlink", "fin_return"} -> {"aborted"}
      [] OTHER -> {p}

\* the handler returning to the code it interrupted
handler_returns(p) == p

\* sys.exit(0) at the end of signal_handler, main at position p outside the
\* debug-slot probe: SystemExit takes main to the exit of the interpreter
sys_exit(p) == "exiting"

\* save_partial_results(), then sys.exit(0): SystemExit in the main thread.
\* In the debug slot it unwinds check_key_e2e; in the as_completed loop it
\* leaves the `with ThreadPoolExecutor` block, whose __exit__ is
\* shutdown(wait=True): queued tasks are not cancelled.
HandlerExit ==
    /\ hpc = "exit"
    /\ hpc' = "idle"
    /\ IF mainpc \in {"debug", "unwind"}
       THEN /\ \E u \in UnwindPc(pc[1]) :
                 /\ pc' = [pc EXCEPT ![1] = u]
                 /\ mainpc' = IF u \in FinishedPcs THEN "exiting" ELSE "unwind"
            /\ result' = [result EXCEPT ![1] = IF pc[1] = "done" THEN @ ELSE "raised"]
       ELSE /\ mainpc' = sys_exit(mainpc)
            /\ UNCHANGED << pc, result >>
    /\ partial' = save_partial_results
    /\ UNCHANGED << hidx, hcur, interrupted, signals >>
    /\ UNCHANGED metrics_response_times
    /\ UNCHANGED << port, proc, killed, file, cached, how, wrote >>
    /\ UNCHANGED << cache, now, returns, port_pool, active_processes >>
    /\ UNCHANGED << collected, available_keys, output_path_set, saved, submitted >>
    /\ UNCHANGED configVars

(* ------------------------------ clock --------------------------------- *)
Tick ==
    /\ now < MaxTime
    /\ now' = now + 1
    /\ UNCHANGED << taskVars, cache, returns, port_pool, active_processes >>
    /\ UNCHANGED << mainVars, handlerVars, configVars >>

(* ----------------------- links and notworkers ------------------------- *)
\* A link is << base, fragment >>: base names the URI up to its '#', fragment
\* is 0 (no #fragment) or 1 (a "#tag"). A line of a list or of the notworkers
\* file is a link, or Junk (blank, comment, or no known protocol prefix).
Fragments == {0, 1}
Links == (1..NumBases) \X Fragments
Junk == << 0, 0 >>
Lines == Links \cup {Junk}

\* the sources of a cascade, named by their normalized identifier
\* (_normalize_source_identifier); the initial source is the first
Feeds == 1..NumFeeds
RootFeed == 1

\* normalize_proxy_link(link): the link without its #fragment
normalize_proxy_link(l) == << l[1], 0 >>

\* the line starts with one of the protocol prefixes
IsProxyLine(l) == l # Junk

\* parse_proxy_lines(text): every protocol line, in order, duplicates kept
parse_proxy_lines(t) == SelectSeq(t, IsProxyLine)

\* load_keys_from_file(path): every protocol line of the file, in order
load_keys_from_file(f) == SelectSeq(f, IsProxyLine)

\* load_notworkers(path): the set of normalized links of the file
load_notworkers(f) ==
    { normalize_proxy_link(f[i]) : i \in { j \in 1..Len(f) : IsProxyLine(f[j]) } }

\* the entry of the file is taken without its comment
ExistingNormalized(f, n) == n

\* normalized_to_full[norm] of load_notworkers_with_lines: the last line of
\* the file with that normalized link
ExistingFull(f, n) ==
    LET I == { j \in 1..Len(f) : IsProxyLine(f[j]) /\ normalize_proxy_link(f[j]) = n }
    IN  f[CHOOSE i \in I : \A j \in I : j <= i]

\* the loop over the keys with the link compared as written: a key is
\* appended unless the same text was appended before
RECURSIVE DedupKeysByRawLink(_, _, _)
DedupKeysByRawLink(ks, seen, acc) ==
    IF ks = << >> THEN acc
    ELSE IF Head(ks) \notin Range(acc)
         THEN DedupKeysByRawLink(Tail(ks), seen, Append(acc, Head(ks)))
         ELSE DedupKeysByRawLink(Tail(ks), seen, acc)

\* _gather_keys, the loop over the keys of one source: a key is appended
\* unless its normalized link was seen before
RECURSIVE DedupKeys(_, _, _)
DedupKeys(ks, seen, acc) ==
    IF ks = << >> THEN acc
    ELSE LET norm == normalize_proxy_link(Head(ks))
         IN  IF norm \notin seen
             THEN DedupKeys(Tail(ks), seen \cup {norm}, Append(acc, Head(ks)))
             ELSE DedupKeys(Tail(ks), seen, acc)

\* get_key_hash(vless_line): a digest of the whole link as written, its
\* #fragment included (sha256, taken as collision-free)
get_key_hash(l) == << "sha256", l[1], l[2] >>

\* the set of normalized links of a list of keys
NormsOf(ks) == { normalize_proxy_link(ks[i]) : i \in 1..Len(ks) }

\* the filter with the candidate compared as written, not normalized
FilterByRawLink(ks, nws) ==
    LET keep(l) == l \notin nws
    IN  IF nws = {} THEN ks ELSE SelectSeq(ks, keep)

\* main: keys = [(link, full) ... if normalize_proxy_link(link) not in notworkers_set]
FilterNotworkers(ks, nws) ==
    LET keep(l) == normalize_proxy_link(l) \notin nws
    IN  IF nws = {} THEN ks ELSE SelectSeq(ks, keep)

\* sorted(normalized_to_full): the normalized links in ascending order
RECURSIVE SortedNorms(_)
SortedNorms(S) ==
    IF S = {} THEN << >>
    ELSE LET m == CHOOSE x \in S : \A y \in S : x[1] <= y[1]
         IN  << m >> \o SortedNorms(S \ {m})

(* ------------------- a run of vless_checker, key by key --------------- *)
\* everything the relay lifecycle, the main loop and the handler work on
runCore == << taskVars, mainVars, handlerVars, cache, now, returns, port_pool,
              active_processes, program, debugFirst, cacheOn, strongMode,
              main_interrupted, sig_available_keys, sig_output_path_set >>
runNoReq == << runCore, unitVars >>
runVars == << runNoReq, reqVars >>
\* everything but the variables of one part
othersRound == << runCore, nwVars, ingestVars, reqVars, strongVars, validVars, speedVars, subVars, postVars, countVars >>
othersStrong == << runCore, nwVars, ingestVars, reqVars, roundVars, validVars, speedVars, subVars, postVars, countVars >>
othersValid == << runCore, nwVars, ingestVars, reqVars, roundVars, strongVars, speedVars, subVars, postVars, countVars >>
othersSpeed == << runCore, nwVars, ingestVars, reqVars, roundVars, strongVars, validVars, subVars, postVars, countVars >>
othersSub == << runCore, nwVars, ingestVars, reqVars, roundVars, strongVars, validVars, speedVars, postVars, countVars >>
othersPost == << runCore, nwVars, ingestVars, reqVars, roundVars, strongVars, validVars, speedVars, subVars, countVars >>
othersCount == << runCore, nwVars, ingestVars, reqVars, roundVars, strongVars, validVars, speedVars, subVars, postVars >>

\* main, up to the first check: the keys are loaded according to MODE, then
\* (MODE other than notworkers) filtered against the notworkers file.
\*   notworkers: load_keys_from_file(NOTWORKERS_FILE); no key: sys.exit(0)
\*   merge:      load_merged_keys; no key: ValueError, not caught by main
\*   single:     load_list fails (the source is in `fails`): sys.exit(1);
\*               else parse_proxy_lines
\* No key left after the filter: sys.exit(0).
Startup ==
    /\ npc = "start"
    /\ LET failed == (mode = "single" /\ RootFeed \in fails)
             keys0 == CASE mode = "notworkers" -> load_keys_from_file(nwfile)
                        [] mode = "merge" -> DedupKeys(parse_proxy_lines(text), {}, << >>)
                        [] OTHER -> parse_proxy_lines(text)
             nws == load_notworkers(nwfile)
             keys1 == IF mode = "notworkers" THEN keys0 ELSE FilterNotworkers(keys0, nws)
         IN  /\ nwstart' = nws
             /\ IF failed \/ (mode = "merge" /\ keys0 = << >>)
                THEN /\ npc' = "exited" /\ exitcode' = 1
                     /\ UNCHANGED keys
                ELSE IF keys1 = << >>
                THEN /\ npc' = "exited" /\ exitcode' = 0
                     /\ keys' = keys1
                ELSE /\ npc' = "check" /\ keys' = keys1
                     /\ UNCHANGED exitcode
    /\ UNCHANGED << mode, text, nwfile, cidx, all_metrics, passed_links, verdicts,
                    available, outfile, top100file, files_written >>
    /\ UNCHANGED << runVars, ingestVars >>

\* what an earlier run left in the primary and in the top-100 file: one line,
\* a key (base 0) that no list of this run holds
PreviousOutput == << << 0, 1 >> >>

\* what check_key_e2e can do with one candidate: return alive, return dead,
\* or raise (scratch-file creation failed)
ProbeResults == {"alive", "dead", "raised"}

\* format_key_with_metadata(link, metrics)[1]: the average of the response
\* times, in milliseconds; 0 when the metrics hold no response time
Latencies == 0..MaxLatency

\* main's filter on a key that passed: `if latency <= MAX_LATENCY_MS`
latency_passes_always(latency) == TRUE

latency_passes(latency) == latency <= MAX_LATENCY_MS

\* how the check of one candidate ends for main:
\*   "live"   check_key_e2e returned alive and latency <= MAX_LATENCY_MS
\*   "slow"   check_key_e2e returned alive and latency > MAX_LATENCY_MS
\*   "dead"   check_key_e2e returned dead
\*   "raised" check_key_e2e raised (scratch-file creation failed)
CheckOutcomes == {"live", "slow", "dead", "raised"}

\* main: the result of one candidate is consumed (the first by main itself
\* when DEBUG_FIRST_FAIL, the others from their futures): all_metrics[link] =
\* metrics; when alive and latency <= MAX_LATENCY_MS the pair is appended to
\* `available` and the link to available_keys. An exception of the first
\* key's check leaves main; one of a future is logged.
CheckKey ==
    /\ npc = "check"
    /\ cidx < Len(keys)
    /\ \E r \in ProbeResults, latency \in Latencies :
         LET link == keys[cidx + 1]
             kept == r = "alive" /\ latency_passes(latency)
             o == IF r = "alive" THEN (IF latency <= MAX_LATENCY_MS THEN "live" ELSE "slow")
                  ELSE r
         IN  IF r = "raised" /\ debugFirst /\ cidx = 0
             THEN /\ npc' = "exited" /\ exitcode' = 1
                  /\ UNCHANGED << cidx, all_metrics, passed_links, verdicts, available >>
             ELSE /\ cidx' = cidx + 1
                  /\ verdicts' = Append(verdicts, o)
                  /\ all_metrics' = IF r = "raised" THEN all_metrics
                                    ELSE all_metrics \cup {link}
                  /\ available' = IF kept THEN Append(available, << link, latency >>)
                                  ELSE available
                  /\ passed_links' = IF kept THEN passed_links \cup {link}
                                     ELSE passed_links
                  /\ UNCHANGED << npc, exitcode >>
    /\ UNCHANGED << mode, text, nwfile, nwstart, keys, outfile, top100file,
                    files_written >>
    /\ UNCHANGED << runVars, ingestVars >>

\* sorted(), replaced by the order of arrival
arrival_order(pairs) == pairs

\* the index of the first entry of `pairs` whose latency is the least
FirstLeast(pairs) ==
    CHOOSE i \in 1..Len(pairs) :
        /\ \A j \in 1..Len(pairs) : pairs[i][2] <= pairs[j][2]
        /\ \A j \in 1..(i - 1) : pairs[j][2] > pairs[i][2]

\* the list without its i-th entry
Without(pairs, i) == [ j \in 1..(Len(pairs) - 1) |-> IF j < i THEN pairs[j] ELSE pairs[j + 1] ]

\* sorted(available, key=lambda x: x[1]): ascending by latency, entries of
\* equal latency in their order of arrival
RECURSIVE sorted_by_latency(_)
sorted_by_latency(pairs) ==
    IF pairs = << >> THEN << >>
    ELSE LET i == FirstLeast(pairs)
         IN  << pairs[i] >> \o sorted_by_latency(Without(pairs, i))

\* the lesser of two numbers
Min(a, b) == IF a <= b THEN a ELSE b

\* `if available_sorted:` of save_results_and_exit, replaced by no test
write_output_always(available_sorted) == TRUE

\* `if available_sorted:` the output files are written only for a list
\* that is not empty
write_output(available_sorted) == available_sorted # << >>

\* available_sorted[:100]
top100(available_sorted) == SubSeq(available_sorted, 1, Min(TOP100, Len(available_sorted)))

\* the lines written for a list of pairs: the full line of each link, the
\* latency prefix stripped
Lines_of(pairs) == [ i \in 1..Len(pairs) |-> pairs[i][1] ]

\* save_results_and_exit: the cache is saved when enabled; `available` is
\* sorted by latency and, when not empty, written to the primary file and
\* its first 100 entries to the top-100 file; then the notworkers update:
\* failed links are added, links that passed are removed, compared by
\* normalized link; the file is rewritten with one full line per normalized
\* link, sorted
SaveNotworkers ==
    /\ npc = "check"
    /\ cidx = Len(keys)
    /\ LET available_sorted == sorted_by_latency(available)
           failed_links == all_metrics \ passed_links
           available_normalized == { normalize_proxy_link(l) : l \in passed_links }
           existing_set == load_notworkers(nwfile)
           failed_normalized == { normalize_proxy_link(l) : l \in failed_links }
           merged_set == (existing_set \cup failed_normalized) \ available_normalized
           FullChoices(n) == IF n \in existing_set THEN {ExistingFull(nwfile, n)}
                             ELSE { l \in failed_links : normalize_proxy_link(l) = n }
           order == SortedNorms(merged_set)
           nw_update == failed_links # {} \/ available_normalized # {}
       IN  /\ IF write_output(available_sorted)
              THEN /\ outfile' = Lines_of(available_sorted)
                   /\ top100file' = Lines_of(top100(available_sorted))
              ELSE UNCHANGED << outfile, top100file >>
           /\ IF nw_update
              THEN \E full \in [merged_set -> Links] :
                     /\ \A n \in merged_set : full[n] \in FullChoices(n)
                     /\ nwfile' = [ i \in 1..Len(order) |-> full[order[i]] ]
              ELSE UNCHANGED nwfile
           /\ files_written' = files_written
                  \cup (IF cacheOn THEN {"cache"} ELSE {})
                  \cup (IF write_output(available_sorted) THEN {"output", "top100"} ELSE {})
                  \cup (IF nw_update THEN {"notworkers"} ELSE {})
    /\ npc' = "done"
    /\ exitcode' = 0
    /\ UNCHANGED << mode, text, nwstart, keys, cidx, all_metrics, passed_links, verdicts,
                    available >>
    /\ UNCHANGED << runVars, ingestVars >>

(* ------------------------ cascading ingestion ------------------------- *)
\* the texts a source can hold: two names of one key, and a second name of
\* that key followed by another key
FeedTexts == { << << 1, 0 >>, << 1, 1 >> >>, << << 1, 1 >>, << 2, 0 >> >> }

\* collect_sources, the loop over the tokens of the text: the child sources
\* in file order, a source named twice kept once (seen_child)
RECURSIVE child_sources(_, _)
child_sources(cs, seen_child) ==
    IF cs = << >> THEN << >>
    ELSE IF Head(cs) \in seen_child THEN child_sources(Tail(cs), seen_child)
         ELSE << Head(cs) >> \o child_sources(Tail(cs), seen_child \cup {Head(cs)})

\* no depth is past the limit
depth_never_exceeded(depth) == FALSE

\* _depth_exceeded(depth, source)
depth_exceeded(depth) == depth > MAX_CASCADE_DEPTH

\* a child within the depth limit is queued, visited or scheduled or not
ShouldScheduleByDepthOnly(child, next_depth, visited, scheduled) ==
    ~depth_exceeded(next_depth)

\* _gather_keys, the loop over child_sources: a child is queued unless it is
\* visited, already scheduled, or past the depth limit
ShouldSchedule(child, next_depth, visited, scheduled) ==
    /\ child \notin visited
    /\ child \notin scheduled
    /\ ~depth_exceeded(next_depth)

\* _gather_keys, the loop over child_sources, as << queue, scheduled >>
RECURSIVE Enqueue(_, _, _, _, _)
Enqueue(cs, next_depth, visited, scheduled, queue) ==
    IF cs = << >> THEN << queue, scheduled >>
    ELSE IF ShouldSchedule(Head(cs), next_depth, visited, scheduled)
         THEN Enqueue(Tail(cs), next_depth, visited, scheduled \cup {Head(cs)},
                      Append(queue, << Head(cs), next_depth >>))
         ELSE Enqueue(Tail(cs), next_depth, visited, scheduled, queue)

\* every failure of a source ends the traversal
OnSourceErrorFatal(stop) == "raised"

\* _gather_keys, `except Exception`: re-raise under stop_on_error, else skip
\* the source and go on with the queue
OnSourceError(stop) == IF stop THEN "raised" ELSE "loop"

\* the children are put in front of the queue (depth-first)
NextQueueDepthFirst(rest, added) == added \o rest

\* queue.pop(0) and queue.append(...): the children go behind what is queued
NextQueue(rest, added) == rest \o added

\* one iteration of `while queue` in _gather_keys, with its call of
\* collect_sources
GatherStep ==
    /\ gpc = "loop"
    /\ gqueue # << >>
    /\ giters <= NumFeeds
    /\ giters' = giters + 1
    /\ LET source == Head(gqueue)[1]
           depth == Head(gqueue)[2]
           rest == Tail(gqueue)
           sched == gscheduled \ {source}
       IN  IF source \in gvisited \/ depth_exceeded(depth)
           THEN \* collect_sources returns [], []
                /\ gqueue' = rest
                /\ gscheduled' = sched
                /\ UNCHANGED << gvisited, seen_links, gresult, gpc, gorder, flat >>
           ELSE IF source \in fails
           THEN \* collect_sources raises after visited.add
                /\ gvisited' = gvisited \cup {source}
                /\ gscheduled' = sched
                /\ gqueue' = rest
                /\ gpc' = OnSourceError(stop_on_error)
                /\ gorder' = Append(gorder, << source, depth >>)
                /\ UNCHANGED << seen_links, gresult, flat >>
           ELSE LET ks == parse_proxy_lines(feedText[source])
                    cs == child_sources(feedChildren[source], {})
                    vis == gvisited \cup {source}
                    q == Enqueue(cs, depth + 1, vis, sched, << >>)
                IN  /\ gvisited' = vis
                    /\ gresult' = DedupKeys(ks, seen_links, gresult)
                    /\ seen_links' = seen_links \cup NormsOf(ks)
                    /\ gqueue' = NextQueue(rest, q[1])
                    /\ gscheduled' = q[2]
                    /\ gorder' = Append(gorder, << source, depth >>)
                    /\ flat' = flat \o ks
                    /\ UNCHANGED gpc
    /\ UNCHANGED << feedText, feedChildren, fails, stop_on_error >>
    /\ UNCHANGED << runVars, nwVars >>

\* the queue is empty: _gather_keys returns result. load_merged_keys raises
\* ValueError when there is no key, which main does not catch (exit status 1)
GatherReturn ==
    /\ gpc = "loop"
    /\ gqueue = << >>
    /\ gpc' = "done"
    /\ IF mode = "merge" /\ gresult = << >>
       THEN /\ exitcode' = 1
            /\ npc' = "exited"
            /\ UNCHANGED keys
       ELSE /\ keys' = gresult
            /\ UNCHANGED << exitcode, npc >>
    /\ UNCHANGED << mode, text, nwfile, nwstart, cidx, all_metrics, passed_links,
                    verdicts, available, outfile, top100file, files_written >>
    /\ UNCHANGED << feedText, feedChildren, fails, stop_on_error, gqueue, gvisited,
                    gscheduled, seen_links, gresult, giters, gorder, flat >>
    /\ UNCHANGED runVars

(* ---------------- the requests to one URL (normal mode) --------------- *)
\* what one make_request can give: a valid response in time, a valid response
\* slower than MAX_RESPONSE_TIME (> 0), a response that is not valid (or not
\* ok), a connection error, any other error
Outcomes == {"valid", "slow", "invalid", "conn_error", "error"}

\* sum(request_results)
RECURSIVE Sum(_)
Sum(rs) == IF rs = << >> THEN 0 ELSE (IF Head(rs) THEN 1 ELSE 0) + Sum(Tail(rs))

\* check_key_e2e, one pass of `for retry_attempt in range(MAX_RETRIES + 1)`
Attempt ==
    /\ rpc = "attempt"
    /\ made' = made \cup {<< request_num, retry_attempt >>}
    /\ LET o == outcome[request_num][retry_attempt]
           again == /\ o \in {"slow", "invalid", "conn_error"}
                    /\ retry_attempt < MAX_RETRIES
       IN  /\ IF o = "valid"
              THEN /\ request_results' = Append(request_results, TRUE)
                   /\ request_successful' = TRUE
              ELSE UNCHANGED << request_results, request_successful >>
           /\ IF again
              THEN /\ retry_attempt' = retry_attempt + 1
                   /\ UNCHANGED rpc
              ELSE /\ rpc' = "end_request"
                   /\ UNCHANGED retry_attempt
    /\ UNCHANGED << REQUESTS_PER_URL, MIN_SUCCESSFUL_REQUESTS, outcome, request_num,
                    url_successful >>
    /\ UNCHANGED << runNoReq, nwVars, ingestVars >>

\* check_key_e2e, after the retries of a request:
\* request_results.append(request_successful), then the next request
EndRequest ==
    /\ rpc = "end_request"
    /\ request_results' = Append(request_results, request_successful)
    /\ request_num' = request_num + 1
    /\ retry_attempt' = 0
    /\ request_successful' = FALSE
    /\ rpc' = IF request_num + 1 < REQUESTS_PER_URL THEN "attempt" ELSE "sum"
    /\ UNCHANGED << REQUESTS_PER_URL, MIN_SUCCESSFUL_REQUESTS, outcome,
                    url_successful, made >>
    /\ UNCHANGED << runNoReq, nwVars, ingestVars >>

\* check_key_e2e: successful_requests = sum(request_results);
\* url_successful iff successful_requests >= MIN_SUCCESSFUL_REQUESTS
EndUrl ==
    /\ rpc = "sum"
    /\ url_successful' = (Sum(request_results) >= MIN_SUCCESSFUL_REQUESTS)
    /\ rpc' = "url_done"
    /\ UNCHANGED << REQUESTS_PER_URL, MIN_SUCCESSFUL_REQUESTS, outcome, request_num,
                    retry_attempt, request_results, request_successful, made >>
    /\ UNCHANGED << runNoReq, nwVars, ingestVars >>

(* -------------------- stability rounds (normal mode) ------------------ *)
\* the URLs of type t
UrlsOfType(t) == { u \in 1..Len(all_urls) : all_urls[u] = t }

\* the number of URLs with result "ok" in a record of results
CountOk(res) == Cardinality({ u \in 1..Len(res) : res[u] = "ok" })

\* the short-circuit test with the REQUIRE_HTTPS part left out
short_circuit_on_count(res, cnt) == ~STRICT_MODE /\ cnt >= MIN_SUCCESSFUL_URLS

\* check_key_e2e, the short-circuit test after a URL: not in STRICT_MODE,
\* enough successful URLs and, under REQUIRE_HTTPS, a successful HTTPS URL
short_circuit(res, cnt) ==
    /\ ~STRICT_MODE
    /\ cnt >= MIN_SUCCESSFUL_URLS
    /\ \/ ~REQUIRE_HTTPS
       \/ \E u \in UrlsOfType("https") : res[u] = "ok"

\* check_key_e2e, one pass of `for url, url_type in all_urls`: the requests
\* to the URL make it successful or not; outside STRICT_MODE the loop ends
\* early once MIN_SUCCESSFUL_URLS are successful (and, under REQUIRE_HTTPS,
\* an HTTPS URL is)
VisitUrl ==
    /\ vpc = "url"
    /\ LET ok == urlOk[stability_check][uidx]
           res == [url_results EXCEPT ![uidx] = IF ok THEN "ok" ELSE "fail"]
           cnt == successful_urls_count + (IF ok THEN 1 ELSE 0)
           stop == short_circuit(res, cnt)
       IN  /\ url_results' = res
           /\ successful_urls_count' = cnt
           /\ IF stop \/ uidx = Len(all_urls)
              THEN vpc' = "round_end" /\ UNCHANGED uidx
              ELSE uidx' = uidx + 1 /\ UNCHANGED vpc
    /\ UNCHANGED << STRICT_MODE, STRICT_MODE_REQUIRE_ALL, REQUIRE_HTTPS,
                    MIN_SUCCESSFUL_URLS, STABILITY_CHECKS, all_urls, urlOk,
                    stability_check, all_url_results, stability_results,
                    is_available, round_log, metrics_successful_urls,
                    metrics_failed_urls >>
    /\ UNCHANGED othersRound

\* check_key_e2e, REQUIRE_HTTPS within a round: with HTTPS URLs configured,
\* one of them is successful
https_check_passed(res) ==
    (REQUIRE_HTTPS /\ UrlsOfType("https") # {}) =>
        \E u \in UrlsOfType("https") : res[u] = "ok"

\* check_key_e2e, the end of a round (CHECK_GEOLOCATION off): the results are
\* added to all_url_results; under STRICT_MODE and STRICT_MODE_REQUIRE_ALL a
\* round that failed returns dead at once; else the verdict of the round is
\* appended to stability_results and the next round starts
EndRound ==
    /\ vpc = "round_end"
    /\ all_url_results' =
          [u \in 1..Len(all_urls) |->
              IF url_results[u] = "unvisited" THEN all_url_results[u]
              ELSE Append(all_url_results[u], url_results[u])]
    /\ round_log' = Append(round_log, url_results)
    /\ LET https_ok == https_check_passed(url_results)
           all_urls_passed == successful_urls_count = Len(all_urls)
           strict_all == STRICT_MODE /\ STRICT_MODE_REQUIRE_ALL
           passed == IF strict_all THEN all_urls_passed /\ https_ok
                     ELSE successful_urls_count >= MIN_SUCCESSFUL_URLS /\ https_ok
       IN  /\ stability_results' = Append(stability_results, passed)
           /\ IF strict_all /\ ~passed
              THEN /\ vpc' = "returned"
                   /\ is_available' = "dead"
                   /\ UNCHANGED << stability_check, uidx, url_results,
                                   successful_urls_count >>
              ELSE /\ stability_check' = stability_check + 1
                   /\ uidx' = 1
                   /\ url_results' = [u \in 1..Len(all_urls) |-> "unvisited"]
                   /\ successful_urls_count' = 0
                   /\ vpc' = IF stability_check + 1 < STABILITY_CHECKS
                             THEN "url" ELSE "verdict"
                   /\ UNCHANGED is_available
    /\ UNCHANGED << STRICT_MODE, STRICT_MODE_REQUIRE_ALL, REQUIRE_HTTPS,
                    MIN_SUCCESSFUL_URLS, STABILITY_CHECKS, all_urls, urlOk,
                    metrics_successful_urls, metrics_failed_urls >>
    /\ UNCHANGED othersRound

\* the final verdict without the REQUIRE_HTTPS part
FinalVerdictIgnoringHttps(final) ==
    IF STRICT_MODE /\ STRICT_MODE_REQUIRE_ALL
    THEN CountOk(final) = Len(all_urls)
    ELSE CountOk(final) >= MIN_SUCCESSFUL_URLS

\* check_key_e2e, is_available from final_url_results (for each URL its last
\* result): enough successful URLs, under REQUIRE_HTTPS a successful HTTPS
\* URL; under STRICT_MODE and STRICT_MODE_REQUIRE_ALL every URL successful
\* and, under REQUIRE_HTTPS, HTTPS URLs configured
FinalVerdict(final) ==
    LET https == UrlsOfType("https")
        https_successful == Cardinality({ u \in https : final[u] = "ok" })
    IN  IF STRICT_MODE /\ STRICT_MODE_REQUIRE_ALL
        THEN /\ CountOk(final) = Len(all_urls)
             /\ REQUIRE_HTTPS => (https # {} /\ https_successful = Cardinality(https))
        ELSE /\ CountOk(final) >= MIN_SUCCESSFUL_URLS
             /\ REQUIRE_HTTPS => https_successful > 0

\* check_key_e2e, final_url_results: for each URL that has results, the last
\* one recorded, whichever round recorded it
final_url_results(all_results) ==
    [u \in 1..Len(all_results) |->
        IF all_results[u] = << >> THEN "unvisited"
        ELSE all_results[u][Len(all_results[u])]]

\* check_key_e2e after the rounds (MIN_AVG_RESPONSE_TIME off): with more than
\* one round, dead unless all(stability_results); then the final verdict
Verdict ==
    /\ vpc = "verdict"
    /\ LET all_stable == \A i \in 1..Len(stability_results) : stability_results[i]
           final == final_url_results(all_url_results)
           unstable == STABILITY_CHECKS > 1 /\ ~all_stable
       IN  /\ is_available' = IF unstable THEN "dead"
                              ELSE IF FinalVerdict(final) THEN "live" ELSE "dead"
           /\ IF unstable
              THEN UNCHANGED << metrics_successful_urls, metrics_failed_urls >>
              ELSE /\ metrics_successful_urls' = CountOk(final)
                   /\ metrics_failed_urls' = Len(all_urls) - CountOk(final)
    /\ vpc' = "returned"
    /\ UNCHANGED << STRICT_MODE, STRICT_MODE_REQUIRE_ALL, REQUIRE_HTTPS,
                    MIN_SUCCESSFUL_URLS, STABILITY_CHECKS, all_urls, urlOk,
                    stability_check, uidx, url_results, successful_urls_count,
                    all_url_results, stability_results, round_log >>
    /\ UNCHANGED othersRound

(* ------------------ strict test (STRONG_STYLE_TEST) ------------------- *)
\* Python's max(a, b)
Max(a, b) == IF a >= b THEN a ELSE b

\* attempts_needed = max(1, STRONG_ATTEMPTS)
attempts_needed == Max(1, STRONG_ATTEMPTS)

\* the limit is STRONG_MAX_RESPONSE_TIME alone
max_ok_time_strong_only == STRONG_MAX_RESPONSE_TIME

\* max_ok_time = STRONG_MAX_RESPONSE_TIME if STRONG_MAX_RESPONSE_TIME > 0
\*               else MAX_RESPONSE_TIME
max_ok_time ==
    IF STRONG_MAX_RESPONSE_TIME > 0 THEN STRONG_MAX_RESPONSE_TIME
    ELSE MAX_RESPONSE_TIME

\* check_key_e2e, one pass of `for attempt in range(attempts_needed)`: one
\* GET; a response that is not valid, or one slower than max_ok_time (when
\* positive), returns dead; else the next attempt
StrongAttempt ==
    /\ spc = "attempt"
    /\ total_requests' = total_requests + 1
    /\ LET g == gets[attempt]
       IN  IF g.ok /\ ~(max_ok_time > 0 /\ g.elapsed > max_ok_time)
           THEN /\ response_times' = Append(response_times, g.elapsed)
                /\ attempt' = attempt + 1
                /\ spc' = IF attempt + 1 < attempts_needed THEN "attempt" ELSE "after"
                /\ UNCHANGED strong_result
           ELSE /\ strong_result' = "dead"
                /\ spc' = "returned"
                /\ UNCHANGED << response_times, attempt >>
    /\ UNCHANGED << STRONG_ATTEMPTS, STRONG_MAX_RESPONSE_TIME, MAX_RESPONSE_TIME, gets >>
    /\ UNCHANGED othersStrong

\* check_key_e2e, after the loop of the strict test: return live
StrongLive ==
    /\ spc = "after"
    /\ strong_result' = "live"
    /\ spc' = "returned"
    /\ UNCHANGED << STRONG_ATTEMPTS, STRONG_MAX_RESPONSE_TIME, MAX_RESPONSE_TIME, gets,
                    attempt, total_requests, response_times >>
    /\ UNCHANGED othersStrong

(* ------------------------ check_response_valid ------------------------ *)
\* bool(response): requests.Response is true when its status is below 400
response_ok(status) == status < 400

\* check_response_valid(response, min_size, url)
check_response_valid(status, len, msize, is204) ==
    IF ~response_ok(status) THEN FALSE
    ELSE IF is204 /\ status \notin {200, 204} THEN FALSE
    ELSE IF is204 /\ len > GENERATE_204_MAX_BODY THEN FALSE
    ELSE IF ~is204 /\ ~(200 <= status /\ status < 400) THEN FALSE
    ELSE IF msize > 0 /\ len < msize THEN FALSE
    ELSE TRUE

\* one call of check_response_valid
CheckResponseValid ==
    /\ valid = "none"
    /\ valid' = IF check_response_valid(status_code, content_len, min_size,
                                        url_generate_204)
                THEN "true" ELSE "false"
    /\ UNCHANGED << url_generate_204, status_code, content_len, min_size >>
    /\ UNCHANGED othersValid

(* ------------------------------ speedtest ----------------------------- *)
\* no measurement: _hysteria_latency, the latency phase or the download failed
NoMeasure == -1

\* average latencies in ms, and download speeds in Mbps, that can be measured
SpeedLatencies == {0, 100, 200}
SpeedMbps == {1, 5}

\* speed_test_key returned None
NoPair == [ok |-> FALSE, score |-> 0, kind |-> "none"]

\* speed_test_key returned (proxy_line, score); kind names the return
\* statement: "latency" a latency in ms, "inverse" INVERSE_LATENCY / latency,
\* "mbps" a download speed
Pair(score, kind) == [ok |-> TRUE, score |-> score, kind |-> kind]

\* speed_test_key (a free port, a relay that starts): avg_latency_ms is the
\* outcome of the latency phase (for hysteria, of _hysteria_latency), speed_mbps
\* the outcome of _test_download_speed
speed_test_key(protocol, metric, st_mode, small, medium, avg_latency_ms, speed_mbps) ==
    IF protocol \in {"hysteria", "hysteria2"}
    THEN IF avg_latency_ms # NoMeasure THEN Pair(avg_latency_ms, "latency") ELSE NoPair
    ELSE IF avg_latency_ms = NoMeasure THEN NoPair
    ELSE IF st_mode = "quick" /\ small
    THEN IF speed_mbps # NoMeasure THEN Pair(speed_mbps, "mbps") ELSE NoPair
    ELSE IF st_mode = "full" /\ medium
    THEN IF speed_mbps # NoMeasure THEN Pair(speed_mbps, "mbps") ELSE NoPair
    ELSE IF st_mode = "latency" \/ ~(small \/ medium)
    THEN IF metric = "throughput"
         THEN Pair(IF avg_latency_ms > 0 THEN INVERSE_LATENCY \div avg_latency_ms ELSE 0,
                   "inverse")
         ELSE Pair(avg_latency_ms, "latency")
    ELSE Pair(avg_latency_ms, "latency")

\* speedtest_checker: one future completes; a pair that is not None is
\* appended to results
SpeedTestKey ==
    /\ stpc = "test"
    /\ \E i \in (1..Len(lines)) \ tested :
       \E avg_latency_ms \in SpeedLatencies \cup {NoMeasure},
          speed_mbps \in SpeedMbps \cup {NoMeasure} :
         LET pair == speed_test_key(lines[i], SPEED_TEST_METRIC, SPEED_TEST_MODE,
                                    download_url_small, download_url_medium,
                                    avg_latency_ms, speed_mbps)
         IN  /\ tested' = tested \cup {i}
             /\ results' = IF pair.ok THEN Append(results, << i, pair.score >>)
                           ELSE results
             /\ score_kinds' = IF pair.ok THEN Append(score_kinds, pair.kind)
                               ELSE score_kinds
    /\ UNCHANGED << SPEED_TEST_MODE, SPEED_TEST_METRIC, download_url_small,
                    download_url_medium, lines, reverse, out_lines, stpc >>
    /\ UNCHANGED othersSpeed

\* sort_by_speed of speedtest_checker
sort_by_speed == SPEED_TEST_MODE \in {"quick", "full"} \/ SPEED_TEST_METRIC = "throughput"

\* the index of the first entry of `pairs` whose score is the greatest
FirstGreatest(pairs) ==
    CHOOSE i \in 1..Len(pairs) :
        /\ \A j \in 1..Len(pairs) : pairs[i][2] >= pairs[j][2]
        /\ \A j \in 1..(i - 1) : pairs[j][2] < pairs[i][2]

\* results.sort(key=lambda x: x[1], reverse=rev): a stable sort
RECURSIVE sort_results(_, _)
sort_results(pairs, rev) ==
    IF pairs = << >> THEN << >>
    ELSE LET i == IF rev THEN FirstGreatest(pairs) ELSE FirstLeast(pairs)
         IN  << pairs[i] >> \o sort_results(Without(pairs, i), rev)

\* speedtest_checker, after the pool: no result, exit; else the results are
\* sorted, descending when sort_by_speed, those below MIN_SPEED_THRESHOLD_MBPS
\* are dropped when sort_by_speed, and what is left, if anything, is written
SortResults ==
    /\ stpc = "test"
    /\ tested = 1..Len(lines)
    /\ stpc' = "done"
    /\ IF results = << >>
       THEN UNCHANGED << results, reverse, out_lines >>
       ELSE LET sorted == sort_results(results, sort_by_speed)
                kept == IF MIN_SPEED_THRESHOLD_MBPS > 0 /\ sort_by_speed
                        THEN SelectSeq(sorted, LAMBDA p : p[2] >= MIN_SPEED_THRESHOLD_MBPS)
                        ELSE sorted
            IN  /\ reverse' = sort_by_speed
                /\ results' = kept
                /\ out_lines' = IF kept = << >> THEN out_lines
                                ELSE [ i \in 1..Len(kept) |-> kept[i][1] ]
    /\ UNCHANGED << SPEED_TEST_MODE, SPEED_TEST_METRIC, download_url_small,
                    download_url_medium, lines, tested, score_kinds >>
    /\ UNCHANGED othersSpeed

(* ------------------------ subscription decoding ----------------------- *)
\* texts are lists of character codes (ASCII); the codes used by name
NL == 10
PLUS == 43
MINUS == 45
SLASH == 47
EQUALS == 61
UNDERSCORE == 95
\* what decode("utf-8", errors="replace") puts for a byte that is not ASCII
REPLACEMENT == 65533

\* the characters str.strip and str.split take for white space, and those at
\* which str.splitlines breaks a line
Whitespace == {9, 10, 11, 12, 13, 28, 29, 30, 31, 32}
LineBreaks == {10, 11, 12, 13, 28, 29, 30}

\* "ss://", the shortest entry of _SUBSCRIPTION_PROTOCOLS
Scheme == << 115, 115, 58, 47, 47 >>

\* the character of a 6-bit value in the standard or in the URL-safe alphabet
B64Char(v, urlsafe) ==
    IF v < 26 THEN 65 + v
    ELSE IF v < 52 THEN 97 + (v - 26)
    ELSE IF v < 62 THEN 48 + (v - 52)
    ELSE IF v = 62 THEN (IF urlsafe THEN MINUS ELSE PLUS)
    ELSE (IF urlsafe THEN UNDERSCORE ELSE SLASH)

\* the 6-bit value of a character of the standard alphabet; -1 for any other
B64Value(c) ==
    IF c >= 65 /\ c <= 90 THEN c - 65
    ELSE IF c >= 97 /\ c <= 122 THEN c - 97 + 26
    ELSE IF c >= 48 /\ c <= 57 THEN c - 48 + 52
    ELSE IF c = PLUS THEN 62
    ELSE IF c = SLASH THEN 63
    ELSE -1

\* what a feed does to serve a text as Base64: three bytes give four
\* characters, the last group is completed with "=" when `pad`
RECURSIVE b64encode(_, _, _)
b64encode(bytes, urlsafe, pad) ==
    IF bytes = << >> THEN << >>
    ELSE LET b1 == bytes[1]
             b2 == IF Len(bytes) >= 2 THEN bytes[2] ELSE 0
             b3 == IF Len(bytes) >= 3 THEN bytes[3] ELSE 0
             c1 == B64Char(b1 \div 4, urlsafe)
             c2 == B64Char((b1 % 4) * 16 + (b2 \div 16), urlsafe)
             c3 == B64Char((b2 % 16) * 4 + (b3 \div 64), urlsafe)
             c4 == B64Char(b3 % 64, urlsafe)
         IN  IF Len(bytes) = 1 THEN << c1, c2 >> \o (IF pad THEN << EQUALS, EQUALS >> ELSE << >>)
             ELSE IF Len(bytes) = 2 THEN << c1, c2, c3 >> \o (IF pad THEN << EQUALS >> ELSE << >>)
             ELSE << c1, c2, c3, c4 >> \o b64encode(SubSeq(bytes, 4, Len(bytes)), urlsafe, pad)

\* binascii.a2b_base64 as base64.b64decode calls it (validate=False): a
\* character outside the standard alphabet is skipped; "=" ends the data once
\* the open group of two or three characters is completed to four; data left
\* in an open group at the end is an error
RECURSIVE a2b_base64(_, _, _, _, _, _)
a2b_base64(chars, i, quad_pos, pads, leftchar, out) ==
    IF i > Len(chars)
    THEN [ok |-> quad_pos = 0, bytes |-> out]
    ELSE LET c == chars[i]
             v == B64Value(c)
         IN  IF c = EQUALS
             THEN IF quad_pos >= 2 /\ quad_pos + pads + 1 >= 4
                  THEN [ok |-> TRUE, bytes |-> out]
                  ELSE a2b_base64(chars, i + 1, quad_pos,
                                  IF quad_pos >= 2 THEN pads + 1 ELSE pads, leftchar, out)
             ELSE IF v = -1
             THEN a2b_base64(chars, i + 1, quad_pos, pads, leftchar, out)
             ELSE CASE quad_pos = 0 ->
                         a2b_base64(chars, i + 1, 1, 0, v, out)
                    [] quad_pos = 1 ->
                         a2b_base64(chars, i + 1, 2, 0, v % 16,
                                    Append(out, leftchar * 4 + (v \div 16)))
                    [] quad_pos = 2 ->
                         a2b_base64(chars, i + 1, 3, 0, v % 4,
                                    Append(out, leftchar * 16 + (v \div 4)))
                    [] OTHER ->
                         a2b_base64(chars, i + 1, 0, 0, 0,
                                    Append(out, leftchar * 64 + v))

\* base64.standard_b64decode
standard_b64decode(chars) == a2b_base64(chars, 1, 0, 0, 0, << >>)

\* base64.urlsafe_b64decode: "-" and "_" are translated to "+" and "/", then
\* the standard decoder is applied
urlsafe_b64decode(chars) ==
    standard_b64decode([ i \in 1..Len(chars) |->
                           IF chars[i] = MINUS THEN PLUS
                           ELSE IF chars[i] = UNDERSCORE THEN SLASH
                           ELSE chars[i] ])

\* bytes.decode("utf-8", errors="replace"), a byte that is not ASCII taken
\* on its own
utf8_replace(bytes) == [ i \in 1..Len(bytes) |-> IF bytes[i] < 128 THEN bytes[i] ELSE REPLACEMENT ]

\* str.strip
RECURSIVE strip(_)
strip(txt) ==
    IF txt = << >> THEN txt
    ELSE IF txt[1] \in Whitespace THEN strip(Tail(txt))
    ELSE IF txt[Len(txt)] \in Whitespace THEN strip(SubSeq(txt, 1, Len(txt) - 1))
    ELSE txt

\* the stripped line that starts at position i of txt
LineAt(txt, i) ==
    LET ends == { j \in i..Len(txt) : txt[j] \in LineBreaks }
        last == IF ends = {} THEN Len(txt) ELSE (CHOOSE j \in ends : \A k \in ends : j <= k) - 1
    IN  strip(SubSeq(txt, i, last))

\* the positions of txt at which a line starts
LineStarts(txt) == { i \in 1..Len(txt) : i = 1 \/ txt[i - 1] \in LineBreaks }

\* line.startswith(p) for the scheme
StartsWithScheme(line) ==
    Len(line) >= Len(Scheme) /\ SubSeq(line, 1, Len(Scheme)) = Scheme

\* _content_has_protocol_lines
content_has_protocol_lines(txt) ==
    \E i \in LineStarts(txt) : StartsWithScheme(LineAt(txt, i))

\* decode_subscription_content, with the decoders in the order given
decode_with(txt, decoders) ==
    IF strip(txt) = << >> THEN [tried |-> FALSE, text |-> txt]
    ELSE IF content_has_protocol_lines(strip(txt)) THEN [tried |-> FALSE, text |-> strip(txt)]
    ELSE LET raw == SelectSeq(strip(txt), LAMBDA c : c \notin Whitespace)
             padded == IF Len(raw) % 4 # 0
                       THEN raw \o [ i \in 1..(4 - (Len(raw) % 4)) |-> EQUALS ]
                       ELSE raw
             Try(urlsafe) ==
                 LET r == IF urlsafe THEN urlsafe_b64decode(padded)
                          ELSE standard_b64decode(padded)
                     decoded == strip(utf8_replace(r.bytes))
                 IN  IF r.ok /\ decoded # << >> /\ content_has_protocol_lines(decoded)
                     THEN << decoded >> ELSE << >>
             first == Try(decoders[1])
             second == Try(decoders[2])
         IN  [tried |-> TRUE,
              text |-> IF first # << >> THEN first[1]
                       ELSE IF second # << >> THEN second[1]
                       ELSE strip(txt)]

\* decode_subscription_content: the standard decoder, then the URL-safe one
decode_subscription_content(txt) == decode_with(txt, << FALSE, TRUE >>)

\* load_list's text goes through decode_subscription_content
DecodeBody ==
    /\ sub_pc = "body"
    /\ LET r == decode_subscription_content(sub_text)
       IN  /\ sub_result' = r.text
           /\ sub_tried' = r.tried
    /\ sub_pc' = "done"
    /\ UNCHANGED << sub_plain, sub_sent, sub_text >>
    /\ UNCHANGED othersSub

(* ------------------- the POST probe and the final gates --------------- *)
\* the two executions compared
Executions == {1, 2}

\* the sum of a list of numbers
RECURSIVE Total(_)
Total(ts) == IF ts = << >> THEN 0 ELSE Head(ts) + Total(Tail(ts))

\* check_key_e2e, the POST probe (single round): with TEST_POST_REQUESTS one
\* POST is sent; it counts in total_requests and, when it succeeds, in
\* successful_requests, and its elapsed time is appended to response_times
PostProbe(e) ==
    /\ ppc[e] = "post"
    /\ IF TEST_POST_REQUESTS
       THEN /\ m_total_requests' = [m_total_requests EXCEPT ![e] = @ + 1]
            /\ IF post_outcome[e].ok
               THEN /\ m_successful_requests' = [m_successful_requests EXCEPT ![e] = @ + 1]
                    /\ m_response_times' =
                          [m_response_times EXCEPT ![e] = Append(@, post_outcome[e].elapsed)]
               ELSE UNCHANGED << m_successful_requests, m_response_times >>
       ELSE UNCHANGED << m_total_requests, m_successful_requests, m_response_times >>
    /\ ppc' = [ppc EXCEPT ![e] = "gate"]
    /\ UNCHANGED << TEST_POST_REQUESTS, MIN_AVG_RESPONSE_TIME, get_response_times,
                    get_total, urls_available, post_outcome, verdict_alive >>
    /\ UNCHANGED othersPost

\* the average response time gate: avg_time > MIN_AVG_RESPONSE_TIME
avg_too_high(times) ==
    /\ times # << >>
    /\ MIN_AVG_RESPONSE_TIME > 0
    /\ Total(times) > MIN_AVG_RESPONSE_TIME * Len(times)

\* check_key_e2e after the rounds: dead when the average of response_times
\* exceeds MIN_AVG_RESPONSE_TIME; else the verdict of the URL results
AvgGate(e) ==
    /\ ppc[e] = "gate"
    /\ verdict_alive' = [verdict_alive EXCEPT ![e] =
                    IF avg_too_high(m_response_times[e]) THEN "dead"
                    ELSE IF urls_available THEN "live" ELSE "dead"]
    /\ ppc' = [ppc EXCEPT ![e] = "done"]
    /\ UNCHANGED << TEST_POST_REQUESTS, MIN_AVG_RESPONSE_TIME, get_response_times,
                    get_total, urls_available, post_outcome, m_total_requests,
                    m_successful_requests, m_response_times >>
    /\ UNCHANGED othersPost

(* ------------------- the requests of one whole check ------------------ *)
\* what the steps of the counted check leave alone
countFrame == << runCore, nwVars, ingestVars, validVars, speedVars, subVars, postVars,
                 REQUESTS_PER_URL, MIN_SUCCESSFUL_REQUESTS, outcome, rpc,
                 request_successful, url_successful, made,
                 STRICT_MODE, STRICT_MODE_REQUIRE_ALL, REQUIRE_HTTPS,
                 MIN_SUCCESSFUL_URLS, STABILITY_CHECKS, all_urls, urlOk, vpc,
                 all_url_results, stability_results, is_available, round_log,
                 metrics_successful_urls, metrics_failed_urls,
                 STRONG_ATTEMPTS, STRONG_MAX_RESPONSE_TIME, MAX_RESPONSE_TIME, gets,
                 spc, total_requests, response_times, strong_result,
                 CHECK_GEOLOCATION >>

\* the loop variables of the normal mode
countLoop == << stability_check, uidx, url_results, successful_urls_count,
                request_num, retry_attempt, request_results >>

\* a request without a valid response in time is sent again whatever the
\* number of attempts made
retry_always(o, n) == o \in {"slow", "invalid", "conn_error"}

\* check_key_e2e, `for retry_attempt in range(MAX_RETRIES + 1)`: the loop goes
\* on after a response that is too slow (continue) or not valid and after a
\* connection error, while attempts are left; a valid response in time and
\* any other error break it
retry_again(o, n) ==
    /\ o \in {"slow", "invalid", "conn_error"}
    /\ n < MAX_RETRIES

\* check_key_e2e, what follows the loop over the URLs in a round
after_urls ==
    IF TEST_POST_REQUESTS THEN "post"
    ELSE IF CHECK_GEOLOCATION THEN "geo" ELSE "round_end"

\* check_key_e2e, the strict test: one GET of `for attempt in
\* range(attempts_needed)`, counted in total_requests; a GET that does not
\* pass returns; after the last one successful_requests = attempts_needed
CountStrong ==
    /\ kpc = "strong"
    /\ issued' = issued + 1
    /\ metrics_total_requests' = metrics_total_requests + 1
    /\ \E passed \in BOOLEAN :
         IF passed
         THEN /\ attempt' = attempt + 1
              /\ IF attempt + 1 < attempts_needed
                 THEN UNCHANGED << kpc, metrics_successful_requests >>
                 ELSE /\ kpc' = "returned"
                      /\ metrics_successful_requests' = attempts_needed
         ELSE /\ kpc' = "returned"
              /\ UNCHANGED << attempt, metrics_successful_requests >>
    /\ UNCHANGED << geo_lookups, countLoop >>
    /\ UNCHANGED countFrame

\* check_key_e2e, normal mode: one GET of the retry loop, counted in
\* total_requests (and in successful_requests when valid and in time), with
\* what follows it up to the next request: the next attempt; or the end of
\* the request (request_results.append) and the next request; or the end of
\* the URL (url_results, the short-circuit test) and the next URL or the end
\* of the loop over the URLs
CountGet ==
    /\ kpc = "get"
    /\ issued' = issued + 1
    /\ metrics_total_requests' = metrics_total_requests + 1
    /\ \E o \in Outcomes :
         LET request_ok == o = "valid"
             rr == request_results
                     \o (IF request_ok THEN << TRUE >> ELSE << >>)
                     \o << request_ok >>
             ok == Sum(rr) >= MIN_SUCCESSFUL_REQUESTS
             res == [url_results EXCEPT ![uidx] = IF ok THEN "ok" ELSE "fail"]
             cnt == successful_urls_count + (IF ok THEN 1 ELSE 0)
         IN  /\ metrics_successful_requests' =
                   metrics_successful_requests + (IF request_ok THEN 1 ELSE 0)
             /\ IF retry_again(o, retry_attempt)
                THEN /\ retry_attempt' = retry_attempt + 1
                     /\ UNCHANGED << request_num, request_results, uidx, url_results,
                                     successful_urls_count, kpc >>
                ELSE IF request_num + 1 < REQUESTS_PER_URL
                THEN /\ request_num' = request_num + 1
                     /\ retry_attempt' = 0
                     /\ request_results' = rr
                     /\ UNCHANGED << uidx, url_results, successful_urls_count, kpc >>
                ELSE /\ url_results' = res
                     /\ successful_urls_count' = cnt
                     /\ request_num' = 0
                     /\ retry_attempt' = 0
                     /\ request_results' = << >>
                     /\ IF short_circuit(res, cnt) \/ uidx = Len(all_urls)
                        THEN kpc' = after_urls /\ UNCHANGED uidx
                        ELSE uidx' = uidx + 1 /\ UNCHANGED kpc
    /\ UNCHANGED << stability_check, attempt, geo_lookups >>
    /\ UNCHANGED countFrame

\* check_key_e2e, `if TEST_POST_REQUESTS`: one POST to the first URL, counted
\* in total_requests and, when it succeeds, in successful_requests
CountPost ==
    /\ kpc = "post"
    /\ issued' = issued + 1
    /\ metrics_total_requests' = metrics_total_requests + 1
    /\ \E post_ok \in BOOLEAN :
         metrics_successful_requests' =
            metrics_successful_requests + (IF post_ok THEN 1 ELSE 0)
    /\ kpc' = IF CHECK_GEOLOCATION THEN "geo" ELSE "round_end"
    /\ UNCHANGED << attempt, geo_lookups, countLoop >>
    /\ UNCHANGED countFrame

\* check_key_e2e, `if CHECK_GEOLOCATION`: get_geolocation(proxies), a lookup
\* through the relay that no counter of metrics records; a location that is
\* not allowed returns dead
CountGeo ==
    /\ kpc = "geo"
    /\ geo_lookups' = geo_lookups + 1
    /\ \E allowed \in BOOLEAN : kpc' = IF allowed THEN "round_end" ELSE "returned"
    /\ UNCHANGED << issued, metrics_total_requests, metrics_successful_requests,
                    attempt, countLoop >>
    /\ UNCHANGED countFrame

\* check_key_e2e, the end of a pass of `for stability_check in
\* range(STABILITY_CHECKS)`: the next pass starts with fresh url_results, or
\* the loop is over (no request follows it)
CountEndRound ==
    /\ kpc = "round_end"
    /\ IF stability_check + 1 < STABILITY_CHECKS
       THEN /\ stability_check' = stability_check + 1
            /\ uidx' = 1
            /\ url_results' = [u \in 1..Len(all_urls) |-> "unvisited"]
            /\ successful_urls_count' = 0
            /\ kpc' = "get"
       ELSE /\ kpc' = "returned"
            /\ UNCHANGED << stability_check, uidx, url_results, successful_urls_count >>
    /\ UNCHANGED << request_num, retry_attempt, request_results >>
    /\ UNCHANGED << issued, metrics_total_requests, metrics_successful_requests,
                    attempt, geo_lookups >>
    /\ UNCHANGED countFrame

(* ------------------------- specifications ----------------------------- *)
\* the key-by-key view of the run is not used
IdleNotworkers ==
    /\ mode = "single" /\ text = << >> /\ nwfile = << >> /\ nwstart = {}
    /\ keys = << >> /\ npc = "off" /\ cidx = 0
    /\ all_metrics = {} /\ passed_links = {} /\ verdicts = << >>
    /\ available = << >> /\ outfile = PreviousOutput
    /\ top100file = PreviousOutput /\ files_written = {}
    /\ exitcode = -1

\* no URL is being requested
IdleRequests ==
    /\ REQUESTS_PER_URL = 1 /\ MIN_SUCCESSFUL_REQUESTS = 1
    /\ outcome = [r \in 0..(MaxRequests - 1) |-> [a \in 0..MAX_RETRIES |-> "valid"]]
    /\ rpc = "off" /\ request_num = 0 /\ retry_attempt = 0
    /\ request_results = << >> /\ request_successful = FALSE
    /\ url_successful = FALSE /\ made = {}

\* no stability round is running
IdleRound ==

    /\ STRICT_MODE = FALSE /\ STRICT_MODE_REQUIRE_ALL = TRUE /\ REQUIRE_HTTPS = FALSE
    /\ MIN_SUCCESSFUL_URLS = 1 /\ STABILITY_CHECKS = 1
    /\ all_urls = << "http" >>
    /\ urlOk = [r \in 0..(MaxRounds - 1) |-> [u \in 1..MaxUrls |-> FALSE]]
    /\ vpc = "off" /\ stability_check = 0 /\ uidx = 1
    /\ url_results = << "unvisited" >>
    /\ successful_urls_count = 0
    /\ all_url_results = << << >> >>
    /\ stability_results = << >>
    /\ is_available = "none"
    /\ round_log = << >>
    /\ metrics_successful_urls = 0 /\ metrics_failed_urls = 0

\* the strict test is not running
IdleStrong ==

    /\ STRONG_ATTEMPTS = 1 /\ STRONG_MAX_RESPONSE_TIME = 0 /\ MAX_RESPONSE_TIME = 0
    /\ gets = [a \in 0..(MaxStrongAttempts - 1) |-> [ok |-> TRUE, elapsed |-> 1]]
    /\ spc = "off" /\ attempt = 0 /\ total_requests = 0
    /\ response_times = << >> /\ strong_result = "none"

\* check_response_valid is not called
IdleValid ==

    /\ url_generate_204 = FALSE /\ status_code = 200 /\ content_len = 0
    /\ min_size = 0 /\ valid = "none"

\* speedtest_checker is not used
IdleSpeed ==
    /\ SPEED_TEST_MODE = "latency" /\ SPEED_TEST_METRIC = "latency"
    /\ download_url_small = TRUE /\ download_url_medium = TRUE
    /\ lines = << >> /\ tested = {} /\ results = << >> /\ score_kinds = << >>
    /\ reverse = "none" /\ out_lines = "none" /\ stpc = "off"

\* no feed body is being decoded
IdleSub ==
    /\ sub_plain = << >> /\ sub_sent = "plain" /\ sub_text = << >>
    /\ sub_tried = FALSE /\ sub_result = << >> /\ sub_pc = "off"

\* no end of a check is being compared
IdlePost ==
    /\ TEST_POST_REQUESTS = FALSE /\ MIN_AVG_RESPONSE_TIME = 0
    /\ get_response_times = << >> /\ get_total = 0 /\ urls_available = FALSE
    /\ post_outcome = << >> /\ m_total_requests = << >>
    /\ m_successful_requests = << >> /\ m_response_times = << >>
    /\ verdict_alive = << >> /\ ppc = << >>

\* no request is being counted
IdleCount ==
    /\ CHECK_GEOLOCATION = FALSE
    /\ metrics_total_requests = 0 /\ metrics_successful_requests = 0
    /\ issued = 0 /\ geo_lookups = 0 /\ kpc = "off"

\* the cascading loader is not used
IdleIngest ==
    /\ feedText = [f \in Feeds |-> << >>]
    /\ feedChildren = [f \in Feeds |-> << >>]
    /\ stop_on_error = FALSE
    /\ gqueue = << >> /\ gvisited = {} /\ gscheduled = {} /\ seen_links = {}
    /\ gresult = << >> /\ gpc = "off" /\ giters = 0 /\ gorder = << >>
    /\ flat = << >>

\* every part but one is at rest
IdleUnitsExcept(u) ==
    /\ u = "round" \/ IdleRound
    /\ u = "strong" \/ IdleStrong
    /\ u = "valid" \/ IdleValid
    /\ u = "speed" \/ IdleSpeed
    /\ u = "sub" \/ IdleSub
    /\ u = "post" \/ IdlePost
    /\ u = "count" \/ IdleCount

InitCommon ==
    /\ port_pool = InitialPool
    /\ active_processes = << >>
    /\ port = [k \in Keys |-> NoPort]
    /\ proc = [k \in Keys |-> "none"]
    /\ killed = [k \in Keys |-> FALSE]
    /\ file = [k \in Keys |-> "none"]
    /\ result = [k \in Keys |-> "none"]
    /\ cached = [k \in Keys |-> FALSE]
    /\ how = [k \in Keys |-> "none"]
    /\ metrics_response_times = [k \in Keys |-> "empty"]
    /\ wrote = [k \in Keys |-> FALSE]
    /\ returns = [k \in Keys |-> 0]
    /\ collected = [k \in Keys |-> FALSE]
    /\ hpc = "idle" /\ hidx = 1 /\ hcur = << 0, NoPort >>
    /\ interrupted = FALSE /\ main_interrupted = FALSE
    /\ signals = 0
    /\ available_keys = << >> /\ sig_available_keys = << >>
    /\ output_path_set = (program = "check") /\ sig_output_path_set = FALSE
    /\ partial = << >>
    /\ saved = FALSE
    /\ mainpc = IF program = "check" /\ debugFirst THEN "debug" ELSE "loop"
    /\ submitted = ~(program = "check" /\ debugFirst)

\* a run of vless_checker.py (DEBUG_FIRST_FAIL at its default, true: the first
\* key in the debug slot, the others through the pool) or of
\* speedtest_checker.py (every key through the pool), the cache disabled
\* (ENABLE_CACHE defaults to false), that signals may interrupt
Init ==
    /\ program \in {"check", "speedtest"}
    /\ debugFirst = (program = "check")
    /\ cacheOn = FALSE /\ strongMode = FALSE
    /\ now = 0
    /\ cache = [k \in Keys |-> NoEntry]
    /\ pc = [k \in Keys |-> "queued"]
    /\ InitCommon
    /\ IdleNotworkers
    /\ IdleIngest /\ fails = {}
    /\ IdleRequests
    /\ IdleUnitsExcept("none")

TaskStep(k) ==
    \/ ParseFail(k) \/ Hysteria(k) \/ TakePort(k) \/ WriteConfig(k) \/ Spawn(k)
    \/ Register(k) \/ Probe(k) \/ Deregister(k)
    \/ FinRemove(k) \/ FinKill(k) \/ FinUnlink(k) \/ FinReturn(k)

MainStep == CollectDebug \/ (\E k \in Keys : Collect(k)) \/ MainSave \/ AtExit

HandlerStep ==
    Signal \/ HandlerKill \/ HandlerReturn \/ HandlerClear \/ HandlerExit
      \/ UnwindDone

Next == (\E k \in Keys : TaskStep(k)) \/ MainStep \/ HandlerStep

Spec == Init /\ [][Next]_vars

\* entries load_cache keeps: current_time - timestamp < CACHE_TTL
LoadedEntries ==
    {NoEntry} \cup [result : {"live", "dead"}, timestamp : 1..CACHE_TTL]

\* a run of vless_checker.py with ENABLE_CACHE, no signal, the clock running
InitCache ==
    /\ program = "check"
    /\ debugFirst \in BOOLEAN
    /\ cacheOn = TRUE
    /\ strongMode \in BOOLEAN
    /\ now = CACHE_TTL
    /\ cache \in [Keys -> LoadedEntries]
    /\ \A k \in Keys : k > NumCacheKeys => cache[k] = NoEntry
    /\ pc = [k \in Keys |-> IF k <= NumCacheKeys THEN "queued" ELSE "absent"]
    /\ InitCommon
    /\ IdleNotworkers
    /\ IdleIngest /\ fails = {}
    /\ IdleRequests
    /\ IdleUnitsExcept("none")

NextCache ==
    \/ \E k \in Keys : CacheHit(k) \/ TaskStep(k)
    \/ MainStep
    \/ Tick

SpecCache == InitCache /\ [][NextCache]_vars

\* the lists of at most n lines
SeqsUpTo(S, n) == UNION { [1..m -> S] : m \in 0..n }

\* a run of vless_checker.py seen key by key, in any MODE, from any list and
\* any notworkers file; no signal
InitNotworkers ==
    /\ program = "check"
    /\ debugFirst \in BOOLEAN
    /\ cacheOn = FALSE /\ strongMode = FALSE
    /\ now = 0
    /\ cache = [k \in Keys |-> NoEntry]
    /\ pc = [k \in Keys |-> "absent"]
    /\ InitCommon
    /\ mode \in {"single", "merge", "notworkers"}
    /\ text \in SeqsUpTo(Lines, MaxLines)
    /\ mode = "notworkers" => text = << >>
    /\ IdleIngest
    /\ IdleRequests
    /\ IdleUnitsExcept("none")
    /\ fails \in {{}, {RootFeed}}
    /\ mode # "single" => fails = {}
    /\ nwfile \in SeqsUpTo(Lines, MaxFileLines)
    /\ nwstart = {} /\ keys = << >> /\ npc = "start" /\ cidx = 0
    /\ all_metrics = {} /\ passed_links = {} /\ verdicts = << >>
    /\ available = << >> /\ outfile = PreviousOutput
    /\ top100file = PreviousOutput /\ files_written = {}
    /\ exitcode = -1

NextNotworkers == Startup \/ CheckKey \/ SaveNotworkers

SpecNotworkers == InitNotworkers /\ [][NextNotworkers]_vars

\* the child lists of length at most n, a source possibly named twice
ChildLists(n) == SeqsUpTo(Feeds, n)

\* ingestion alone: a cascade (merge: load_merged_keys, cascade:
\* load_keys_with_cascade) over every small graph of sources, or the single
\* source of single mode
InitIngest ==
    /\ program = "check"
    /\ debugFirst = FALSE
    /\ cacheOn = FALSE /\ strongMode = FALSE
    /\ now = 0
    /\ cache = [k \in Keys |-> NoEntry]
    /\ pc = [k \in Keys |-> "absent"]
    /\ InitCommon
    /\ nwfile = << >> /\ nwstart = {} /\ keys = << >> /\ cidx = 0
    /\ all_metrics = {} /\ passed_links = {} /\ verdicts = << >>
    /\ available = << >> /\ outfile = PreviousOutput
    /\ top100file = PreviousOutput /\ files_written = {}
    /\ exitcode = -1
    /\ IdleRequests
    /\ IdleUnitsExcept("none")
    /\ mode \in {"merge", "cascade", "single"}
    /\ fails \in {{}} \cup { {f} : f \in Feeds }
    /\ gvisited = {} /\ gscheduled = {RootFeed} /\ seen_links = {}
    /\ gresult = << >> /\ giters = 0 /\ gorder = << >> /\ flat = << >>
    /\ IF mode = "single"
       THEN /\ npc = "start"
            /\ text \in FeedTexts
            /\ fails \subseteq {RootFeed}
            /\ feedText = [f \in Feeds |-> << >>]
            /\ feedChildren = [f \in Feeds |-> << >>]
            /\ stop_on_error = FALSE
            /\ gqueue = << >> /\ gpc = "off"
       ELSE /\ npc = "off"
            /\ text = << >>
            /\ feedText \in [Feeds -> FeedTexts]
            /\ feedChildren \in [Feeds -> ChildLists(MaxRootChildren)]
            /\ \A f \in Feeds \ {RootFeed} : Len(feedChildren[f]) <= MaxChildren
            /\ stop_on_error = (mode = "cascade")
            /\ stop_on_error => fails # {}
            /\ gqueue = << << RootFeed, 0 >> >> /\ gpc = "loop"

NextIngest == GatherStep \/ GatherReturn \/ Startup

SpecIngest == InitIngest /\ [][NextIngest]_vars

\* the requests to one URL in one stability round, for every small
\* configuration and every outcome of every attempt
InitRequests ==
    /\ program = "check"
    /\ debugFirst = FALSE
    /\ cacheOn = FALSE /\ strongMode = FALSE
    /\ now = 0
    /\ cache = [k \in Keys |-> NoEntry]
    /\ pc = [k \in Keys |-> "absent"]
    /\ InitCommon
    /\ IdleNotworkers
    /\ IdleIngest /\ fails = {}
    /\ IdleUnitsExcept("none")
    /\ REQUESTS_PER_URL \in 1..MaxRequests
    /\ MIN_SUCCESSFUL_REQUESTS \in 1..MaxRequests
    /\ outcome \in [0..(MaxRequests - 1) -> [0..MAX_RETRIES -> Outcomes]]
    /\ rpc = "attempt" /\ request_num = 0 /\ retry_attempt = 0
    /\ request_results = << >> /\ request_successful = FALSE
    /\ url_successful = FALSE /\ made = {}

NextRequests == Attempt \/ EndRequest \/ EndUrl

SpecRequests == InitRequests /\ [][NextRequests]_vars

\* what every specification of one part of the program starts from: no
\* relay, no run, no ingestion, no requests
IdleBase ==
    /\ program = "check"
    /\ debugFirst = FALSE
    /\ cacheOn = FALSE /\ strongMode = FALSE
    /\ now = 0
    /\ cache = [k \in Keys |-> NoEntry]
    /\ pc = [k \in Keys |-> "absent"]
    /\ InitCommon
    /\ IdleNotworkers
    /\ IdleIngest /\ fails = {}

\* the lists of URL types: the HTTP URLs, then the HTTPS URLs
UrlLists ==
    { [u \in 1..(ab[1] + ab[2]) |-> IF u <= ab[1] THEN "http" ELSE "https"] :
        ab \in { x \in (0..MaxUrls) \X (0..MaxUrls) :
                   x[1] + x[2] >= 1 /\ x[1] + x[2] <= MaxUrls } }

\* the stability rounds of one probe, for every small configuration and
\* every success or failure of every URL in every round. lib/config.py adds
\* an HTTPS URL when REQUIRE_HTTPS is set and none is configured
InitRounds ==
    /\ IdleBase
    /\ IdleRequests
    /\ IdleUnitsExcept("round")
    /\ STRICT_MODE \in BOOLEAN /\ STRICT_MODE_REQUIRE_ALL \in BOOLEAN
    /\ REQUIRE_HTTPS \in BOOLEAN
    /\ MIN_SUCCESSFUL_URLS \in 1..MaxUrls
    /\ STABILITY_CHECKS \in 1..MaxRounds
    /\ all_urls \in UrlLists
    /\ REQUIRE_HTTPS => UrlsOfType("https") # {}
    /\ urlOk \in [0..(MaxRounds - 1) -> [1..MaxUrls -> BOOLEAN]]
    /\ vpc = "url" /\ stability_check = 0 /\ uidx = 1
    /\ url_results = [u \in 1..Len(all_urls) |-> "unvisited"]
    /\ successful_urls_count = 0
    /\ all_url_results = [u \in 1..Len(all_urls) |-> << >>]
    /\ stability_results = << >>
    /\ is_available = "none"
    /\ round_log = << >>
    /\ metrics_successful_urls = 0 /\ metrics_failed_urls = 0

NextRounds == VisitUrl \/ EndRound \/ Verdict

SpecRounds == InitRounds /\ [][NextRounds]_vars

\* the strict test of one probe, for every small configuration and every
\* outcome of every GET
InitStrong ==
    /\ IdleBase
    /\ IdleRequests
    /\ IdleUnitsExcept("strong")
    /\ STRONG_ATTEMPTS \in 0..MaxStrongAttempts
    /\ STRONG_MAX_RESPONSE_TIME \in 0..MaxLimit
    /\ MAX_RESPONSE_TIME \in 0..MaxLimit
    /\ gets \in [0..(MaxStrongAttempts - 1) ->
                   [ok : BOOLEAN, elapsed : 1..(MaxLimit + 1)]]
    /\ spc = "attempt" /\ attempt = 0 /\ total_requests = 0
    /\ response_times = << >> /\ strong_result = "none"

NextStrong == StrongAttempt \/ StrongLive

SpecStrong == InitStrong /\ [][NextStrong]_vars

\* the status codes, body lengths and minimal sizes considered
Statuses == {199, 200, 204, 301, 399, 400, 404}
Lengths == {0, 1, 64, 65, 100}
MinSizes == {0, 1, 65}

\* one call of check_response_valid on every response considered
InitValid ==
    /\ IdleBase
    /\ IdleRequests
    /\ IdleUnitsExcept("valid")
    /\ url_generate_204 \in BOOLEAN
    /\ status_code \in Statuses
    /\ content_len \in Lengths
    /\ min_size \in MinSizes
    /\ valid = "none"

NextValid == CheckResponseValid

SpecValid == InitValid /\ [][NextValid]_vars

\* speedtest_checker alone: every mode and metric, the download URLs set or
\* empty, one or two lines of either family of protocols
InitSpeed ==
    /\ IdleBase
    /\ IdleRequests
    /\ IdleUnitsExcept("speed")
    /\ SPEED_TEST_MODE \in {"latency", "quick", "full"}
    /\ SPEED_TEST_METRIC \in {"latency", "throughput", "hybrid"}
    /\ download_url_small \in BOOLEAN
    /\ download_url_medium \in BOOLEAN
    /\ lines \in { l \in SeqsUpTo({"vless", "hysteria2"}, MaxSpeedLines) : l # << >> }
    /\ tested = {} /\ results = << >> /\ score_kinds = << >>
    /\ reverse = "none" /\ out_lines = "none" /\ stpc = "test"

NextSpeed == SpeedTestKey \/ SortResults

SpecSpeed == InitSpeed /\ [][NextSpeed]_vars

\* the texts a feed stands for: one key whose name holds up to MaxTail
\* characters of "?", ">" and "a", alone or followed by a second key
FeedPlainTexts ==
    { Scheme \o t \o more :
        t \in SeqsUpTo({63, 62, 97}, MaxTail),
        more \in { << >>, << NL >> \o Scheme \o << 97 >> } }

\* the decoding of one feed body: any of the texts, served as it is or as
\* Base64 in either alphabet, padded or not
InitSub ==
    /\ IdleBase
    /\ IdleRequests
    /\ IdleUnitsExcept("sub")
    /\ sub_plain \in FeedPlainTexts
    /\ sub_sent \in {"plain", "standard", "urlsafe"}
    /\ \E pad \in BOOLEAN :
         sub_text = IF sub_sent = "plain" THEN sub_plain
                    ELSE b64encode(sub_plain, sub_sent = "urlsafe", pad)
    /\ sub_tried = FALSE /\ sub_result = << >> /\ sub_pc = "body"

NextSub == DecodeBody

SpecSub == InitSub /\ [][NextSub]_vars

\* the response times a request can take
ElapsedTimes == {1, 3, 5}

\* what a POST request can do
PostOutcomes == [ok : BOOLEAN, elapsed : ElapsedTimes]

\* two executions of the end of one check that differ at most in what the
\* POST request does
InitPost ==
    /\ IdleBase
    /\ IdleRequests
    /\ IdleUnitsExcept("post")
    /\ TEST_POST_REQUESTS \in BOOLEAN
    /\ MIN_AVG_RESPONSE_TIME \in {0, 2}
    /\ get_response_times \in SeqsUpTo(ElapsedTimes, MaxGets)
    /\ get_total \in Len(get_response_times)..MaxGets
    /\ urls_available \in BOOLEAN
    /\ urls_available => get_response_times # << >>
    /\ post_outcome \in [Executions -> PostOutcomes]
    /\ m_total_requests = [e \in Executions |-> get_total]
    /\ m_successful_requests = [e \in Executions |-> Len(get_response_times)]
    /\ m_response_times = [e \in Executions |-> get_response_times]
    /\ verdict_alive = [e \in Executions |-> "none"]
    /\ ppc = [e \in Executions |-> "post"]

NextPost == \E e \in Executions : PostProbe(e) \/ AvgGate(e)

SpecPost == InitPost /\ [][NextPost]_vars

\* the lists of at most MaxCountUrls URL types
CountUrlLists == { l \in UrlLists : Len(l) <= MaxCountUrls }

\* the requests of one whole check, in the strict test or in normal mode,
\* for every small configuration and every outcome of every request
InitCount ==
    /\ program = "check"
    /\ debugFirst = FALSE
    /\ cacheOn = FALSE
    /\ strongMode \in BOOLEAN
    /\ now = 0
    /\ cache = [k \in Keys |-> NoEntry]
    /\ pc = [k \in Keys |-> "absent"]
    /\ InitCommon
    /\ IdleNotworkers
    /\ IdleIngest /\ fails = {}
    /\ IdleValid /\ IdleSpeed /\ IdleSub
    \* the strict test
    /\ STRONG_ATTEMPTS \in 0..MaxStrongAttempts
    /\ ~strongMode => STRONG_ATTEMPTS = 1
    /\ STRONG_MAX_RESPONSE_TIME = 0 /\ MAX_RESPONSE_TIME = 0
    /\ gets = [a \in 0..(MaxStrongAttempts - 1) |-> [ok |-> TRUE, elapsed |-> 1]]
    /\ spc = "off" /\ attempt = 0 /\ total_requests = 0
    /\ response_times = << >> /\ strong_result = "none"
    \* normal mode
    /\ REQUESTS_PER_URL \in 1..MaxRequests
    /\ MIN_SUCCESSFUL_REQUESTS \in 1..MaxRequests
    /\ STRICT_MODE \in BOOLEAN /\ STRICT_MODE_REQUIRE_ALL = TRUE
    /\ REQUIRE_HTTPS \in BOOLEAN
    /\ MIN_SUCCESSFUL_URLS \in 1..MaxCountUrls
    /\ STABILITY_CHECKS \in 1..MaxRounds
    /\ all_urls \in CountUrlLists
    /\ REQUIRE_HTTPS => UrlsOfType("https") # {}
    /\ TEST_POST_REQUESTS \in BOOLEAN
    /\ CHECK_GEOLOCATION \in BOOLEAN
    /\ strongMode =>
          /\ REQUESTS_PER_URL = 1 /\ MIN_SUCCESSFUL_REQUESTS = 1
          /\ ~STRICT_MODE /\ ~REQUIRE_HTTPS /\ MIN_SUCCESSFUL_URLS = 1
          /\ STABILITY_CHECKS = 1 /\ all_urls = << "http" >>
          /\ ~TEST_POST_REQUESTS /\ ~CHECK_GEOLOCATION
    /\ outcome = [r \in 0..(MaxRequests - 1) |-> [a \in 0..MAX_RETRIES |-> "valid"]]
    /\ rpc = "off" /\ request_num = 0 /\ retry_attempt = 0
    /\ request_results = << >> /\ request_successful = FALSE
    /\ url_successful = FALSE /\ made = {}
    /\ urlOk = [r \in 0..(MaxRounds - 1) |-> [u \in 1..MaxUrls |-> FALSE]]
    /\ vpc = "off" /\ stability_check = 0 /\ uidx = 1
    /\ url_results = [u \in 1..Len(all_urls) |-> "unvisited"]
    /\ successful_urls_count = 0
    /\ all_url_results = << << >> >>
    /\ stability_results = << >>
    /\ is_available = "none"
    /\ round_log = << >>
    /\ metrics_successful_urls = 0 /\ metrics_failed_urls = 0
    /\ MIN_AVG_RESPONSE_TIME = 0
    /\ get_response_times = << >> /\ get_total = 0 /\ urls_available = FALSE
    /\ post_outcome = << >> /\ m_total_requests = << >>
    /\ m_successful_requests = << >> /\ m_response_times = << >>
    /\ verdict_alive = << >> /\ ppc = << >>
    /\ metrics_total_requests = 0 /\ metrics_successful_requests = 0
    /\ issued = 0 /\ geo_lookups = 0
    /\ kpc = IF strongMode THEN "strong" ELSE "get"

NextCount == CountStrong \/ CountGet \/ CountPost \/ CountGeo \/ CountEndRound

SpecCount == InitCount /\ [][NextCount]_vars

TypeOK ==
    /\ pc \in [Keys -> RunningPcs \cup FinishedPcs \cup {"queued", "absent"}]
    /\ port \in [Keys -> Ports \cup {NoPort}]
    /\ proc \in [Keys -> {"none", "alive", "dead"}]
    /\ file \in [Keys -> {"none", "exists", "deleted"}]
    /\ result \in [Keys -> {"none", "live", "dead", "raised"}]
    /\ \A i \in 1..Len(port_pool) : port_pool[i] \in Ports
    /\ mainpc \in {"debug", "loop", "save", "unwind", "exiting", "exited"}
    /\ hpc \in {"idle", "iter", "ret", "clear", "exit"}

(* ------------------------------ properties ---------------------------- *)
\* C1: at every moment each port is leased by at most one probe and appears at
\* most once in the free pool, so the free pool never holds more than
\* MAX_WORKERS ports, under any interleaving of probes and cleanup_processes.
C1_PortExclusive ==
    /\ Len(port_pool) <= MAX_WORKERS
    /\ \A i, j \in 1..Len(port_pool) : i # j => port_pool[i] # port_pool[j]
    /\ \A j, k \in Keys :
         (j # k /\ pc[j] \in RunningPcs /\ pc[k] \in RunningPcs) => port[j] # port[k]

\* C2: every successful take_port is matched by exactly one return_port of the
\* same port on every exit path of the probe: a port is never returned twice,
\* and a probe that has ended has returned the port it took.
C2_TakeMatchedByOneReturn ==
    \A k \in Keys :
      /\ returns[k] <= 1
      /\ (pc[k] \in FinishedPcs /\ port[k] # NoPort) => returns[k] = 1

\* C3: when all N > MAX_WORKERS probes of a run have ended and no interrupt
\* was delivered, the free pool holds exactly the MAX_WORKERS initial ports.
C3_PoolFullAfterRun ==
    ((\A k \in Keys : pc[k] = "done") /\ signals = 0)
      => (Len(port_pool) = MAX_WORKERS /\ Range(port_pool) = Ports)

\* C4: a probe that has ended and had spawned a relay has put it through the
\* kill sequence, has removed it from the registry and has deleted its scratch
\* file; once every probe has ended the registry is empty.
C4_RelayReaped ==
    /\ \A k \in Keys :
         (pc[k] \in FinishedPcs /\ proc[k] # "none")
           => /\ killed[k]
              /\ ~InList(active_processes, << k, port[k] >>)
              /\ file[k] = "deleted"
    /\ (\A k \in Keys : pc[k] \in FinishedPcs) => active_processes = << >>

\* C5: spawn, startup wait, probe requests, kill, port return happen in this
\* order on every exit path: a port is in the free pool only when no relay
\* bound to it is still to go through the kill sequence.
C5_KillBeforeReturn ==
    \A k \in Keys :
      (proc[k] = "alive" /\ ~killed[k]) => port[k] \notin Range(port_pool)

\* C6: once an interrupt has been handled, a key task that had not started
\* leases no port and spawns no relay.
C6_NoWorkAfterInterrupt ==
    [][\A k \in Keys :
         (interrupted /\ hpc = "idle" /\ pc[k] = "queued")
           => (port'[k] = NoPort /\ proc'[k] = "none")]_vars

\* C7: when an interrupt has been handled in a run that had found at least one
\* live key, the _partial file holds those keys.
C7_PartialWritten ==
    (signals > 0 /\ hpc = "idle" /\ available_keys # << >>)
      => partial = available_keys

\* C8: with caching enabled and an entry for the key younger than CACHE_TTL,
\* check_key_e2e returns the cached result with cached = true and leases no
\* port, spawns no relay, creates no scratch file, issues no request and
\* leaves the port pool, the registry and the cache as they were.
C8_CacheHitNoSideEffects ==
    [][\A k \in Keys :
         ( /\ cacheOn /\ program = "check"
           /\ cache[k] # NoEntry
           /\ now - cache[k].timestamp < CACHE_TTL
           /\ pc[k] = "queued" /\ pc'[k] # "queued" )
           => /\ pc'[k] = "done"
              /\ result'[k] = cache[k].result
              /\ cached'[k]
              /\ how'[k] = "hit"
              /\ port'[k] = NoPort /\ proc'[k] = "none" /\ file'[k] = "none"
              /\ port_pool' = port_pool
              /\ active_processes' = active_processes
              /\ returns' = returns
              /\ cache' = cache]_vars

\* a key answered from a fresh cache entry
C8_Witness ==
    \E k \in Keys :
      /\ pc[k] = "done" /\ how[k] = "hit" /\ cached[k]
      /\ cache[k] # NoEntry /\ result[k] = cache[k].result
      /\ port[k] = NoPort /\ proc[k] = "none"

\* C9: with caching enabled, a probe that ended with a verdict reached after
\* probing (normal mode or strict mobile-client mode) has written that verdict
\* for the key into the cache.
C9_VerdictCached ==
    \A k \in Keys :
      (cacheOn /\ pc[k] = "done" /\ how[k] = "verdict")
        => (wrote[k] /\ cache[k] # NoEntry /\ cache[k].result = result[k])

\* C10: a probe that ended on an infrastructure failure (no free port, relay
\* binary not found, scratch-file write error, relay exited before readiness)
\* returned dead, returned the port it leased, killed and deregistered the
\* relay it spawned, left no scratch file and wrote no cache entry.
C10_InfraFailureCleanup ==
    \A k \in Keys :
      (pc[k] = "done" /\ how[k] \in {"noport", "write", "notfound", "exited"})
        => /\ result[k] = "dead"
           /\ port[k] # NoPort => returns[k] = 1
           /\ proc[k] # "none"
                => (killed[k] /\ ~InList(active_processes, << k, port[k] >>))
           /\ file[k] # "exists"
           /\ ~wrote[k]

\* C11: for a key whose URI cannot be parsed check_key_e2e returns dead and
\* has no side effects: no port leased, no relay, no scratch file, the port
\* pool, the registry and the cache unchanged.
C11_ParseFailNoSideEffects ==
    [][\A k \in Keys :
         (pc[k] = "queued" /\ how'[k] = "parse")
           => /\ pc'[k] = "done"
              /\ result'[k] = "dead"
              /\ ~cached'[k]
              /\ port'[k] = NoPort /\ proc'[k] = "none" /\ file'[k] = "none"
              /\ port_pool' = port_pool
              /\ active_processes' = active_processes
              /\ returns' = returns
              /\ cache' = cache]_vars

\* a key reported dead because its URI could not be parsed
C11_Witness ==
    \E k \in Keys :
      /\ pc[k] = "done" /\ how[k] = "parse" /\ result[k] = "dead"
      /\ port[k] = NoPort /\ proc[k] = "none" /\ ~wrote[k]

\* C12: no error is raised out of a key task: without interrupt, every task
\* that has ended returned a verdict (a failure gives dead, never an exception).
C12_NoErrorEscapes ==
    \A k \in Keys : (signals = 0 /\ pc[k] \in FinishedPcs) => result[k] \in {"live", "dead"}

\* C13: when a run completes, the notworkers set on disk is
\* (existing \cup dead_this_run) \ alive_this_run by normalized key, where
\* dead_this_run are the keys checked that did not pass and alive_this_run
\* the keys that passed.
C13_NotworkersUpdate ==
    npc = "done" =>
      LET dead == { normalize_proxy_link(keys[i]) :
                      i \in { j \in 1..Len(keys) : verdicts[j] # "live" } }
          alive == { normalize_proxy_link(keys[i]) :
                      i \in { j \in 1..Len(keys) : verdicts[j] = "live" } }
      IN  load_notworkers(nwfile) = (nwstart \cup dead) \ alive

\* C14: after a completed run, a key that was in notworkers and for which
\* check_key_e2e returned alive is no longer in notworkers, and a key that
\* was not in notworkers and for which check_key_e2e returned dead is in it.
C14_NotworkersSelfHeal ==
    npc = "done" =>
      \A i \in 1..Len(keys) :
        LET n == normalize_proxy_link(keys[i])
        IN  /\ (n \in nwstart /\ verdicts[i] \in {"live", "slow"})
                 => n \notin load_notworkers(nwfile)
            /\ (n \notin nwstart /\ verdicts[i] = "dead")
                 => n \in load_notworkers(nwfile)

\* C15: in modes other than notworkers no candidate whose normalized link is
\* in the notworkers file at startup is checked; two candidates that differ
\* only by their #fragment are both dropped when the file has either.
C15_NotworkersFiltered ==
    (mode # "notworkers" /\ npc # "start")
      => /\ NormsOf(keys) \cap nwstart = {}
         /\ { normalize_proxy_link(l) : l \in all_metrics } \cap nwstart = {}

\* a list with two links that differ only by their #fragment, a notworkers
\* file with one of them: neither is a candidate
C15_Witness ==
    /\ mode # "notworkers" /\ npc = "exited" /\ exitcode = 0
    /\ Len(text) = 2 /\ text[1] # text[2]
    /\ IsProxyLine(text[1]) /\ IsProxyLine(text[2])
    /\ normalize_proxy_link(text[1]) = normalize_proxy_link(text[2])
    /\ \E i \in 1..Len(nwfile) : nwfile[i] = text[1]
    /\ \A i \in 1..Len(nwfile) : nwfile[i] # text[2]
    /\ keys = << >>

\* C16: two keys with equal normalized links are one key in every stage:
\* ingestion yields one candidate for them in every MODE, and the verdict
\* cache has one entry for both.
C16_OneKeyPerNormalizedLink ==
    npc # "start" =>
      \A i, j \in 1..Len(keys) :
        /\ i # j => normalize_proxy_link(keys[i]) # normalize_proxy_link(keys[j])
        /\ normalize_proxy_link(keys[i]) = normalize_proxy_link(keys[j])
             => get_key_hash(keys[i]) = get_key_hash(keys[j])

\* the elements of ks at the indices in I, in the order of ks
RECURSIVE Pick(_, _, _)
Pick(ks, I, i) ==
    IF i > Len(ks) THEN << >>
    ELSE (IF i \in I THEN << ks[i] >> ELSE << >>) \o Pick(ks, I, i + 1)

\* the first occurrence of every normalized link of ks, in the order of ks
FirstOccurrences(ks) ==
    Pick(ks, { i \in 1..Len(ks) :
                 \A j \in 1..(i - 1) :
                    normalize_proxy_link(ks[j]) # normalize_proxy_link(ks[i]) }, 1)

\* the sources at most d references away from the initial source, going
\* through readable sources only
RECURSIVE Within(_)
Within(d) ==
    IF d = 0 THEN {RootFeed}
    ELSE LET P == Within(d - 1)
         IN  P \cup UNION { Range(feedChildren[f]) : f \in P \ fails }

\* the number of references on a shortest path from the initial source to f
Dist(f) == CHOOSE d \in 0..MAX_CASCADE_DEPTH :
               f \in Within(d) /\ (d = 0 \/ f \notin Within(d - 1))

\* the keys of the sources of an order of reading, source after source, each
\* in the order of its file
RECURSIVE KeysInOrder(_)
KeysInOrder(order) ==
    IF order = << >> THEN << >>
    ELSE (IF Head(order)[1] \in fails THEN << >>
          ELSE parse_proxy_lines(feedText[Head(order)[1]]))
         \o KeysInOrder(Tail(order))

\* C17: the key list of the cascading loader never holds two keys with the
\* same normalized link, and it holds, for every normalized link, the first
\* occurrence in the order of traversal: the sources are read breadth-first
\* (by increasing distance from the initial source, none twice) and the keys
\* of a source are taken in the order of its file
C17_FirstOccurrenceBreadthFirst ==
    gpc # "off" =>
        /\ \A i, j \in 1..Len(gresult) :
              i # j => normalize_proxy_link(gresult[i]) # normalize_proxy_link(gresult[j])
        /\ \A i, j \in 1..Len(gorder) :
              i < j => /\ gorder[i][1] # gorder[j][1]
                       /\ gorder[i][2] <= gorder[j][2]
        /\ \A i \in 1..Len(gorder) : gorder[i][2] = Dist(gorder[i][1])
        /\ flat = KeysInOrder(gorder)
        /\ gresult = FirstOccurrences(flat)

\* a finished traversal of all four sources, down to depth 2, that dropped
\* later occurrences and kept a key under the name it was first seen with
C17_Witness ==
    /\ gpc = "done"
    /\ Len(gorder) = NumFeeds
    /\ \E i \in 1..Len(gorder) : gorder[i][2] = MAX_CASCADE_DEPTH
    /\ Len(gresult) < Len(flat)
    /\ gresult = << << 1, 1 >>, << 2, 0 >> >>
    /\ \E i \in 1..Len(flat) : flat[i] = << 1, 0 >>

\* every source that a chain of references of readable sources leads to
Reachable == Within(NumFeeds)

\* C18: cascading ingestion terminates on every graph of sources, cyclic or
\* not: every iteration of the loop reads a source not read before, so there
\* are at most as many iterations as sources, and an unfinished traversal
\* has either a queued source to read or returns. When every source is
\* readable and within the depth limit of the initial source, the returned
\* list holds exactly the normalized links of the keys of all sources of the
\* graph, each once, under the name of its first occurrence
C18_TerminatesWithUnion ==
    gpc # "off" =>
        /\ giters = Len(gorder)
        /\ giters <= Cardinality(Reachable)
        /\ \A i, j \in 1..Len(gorder) : i # j => gorder[i][1] # gorder[j][1]
        /\ gpc = "loop" => (gqueue # << >> => giters < Cardinality(Reachable))
        /\ (gpc = "done" /\ fails = {} /\ Reachable = Within(MAX_CASCADE_DEPTH)) =>
              /\ { gorder[i][1] : i \in 1..Len(gorder) } = Reachable
              /\ NormsOf(gresult)
                   = UNION { NormsOf(parse_proxy_lines(feedText[f])) : f \in Reachable }
              /\ Cardinality(NormsOf(gresult)) = Len(gresult)
              /\ \A i \in 1..Len(gresult) :
                    \E n \in 1..Len(flat) :
                       /\ flat[n] = gresult[i]
                       /\ \A m \in 1..(n - 1) :
                             normalize_proxy_link(flat[m]) # normalize_proxy_link(flat[n])

\* a finished traversal of a graph in which a source names itself and the
\* initial source is named again two references away
C18_Witness ==
    /\ gpc = "done" /\ fails = {}
    /\ Reachable = Within(MAX_CASCADE_DEPTH)
    /\ Len(gorder) >= 3
    /\ \E f \in Reachable : f \in Range(feedChildren[f])
    /\ \E i \in 1..Len(gorder) :
          /\ gorder[i][2] = MAX_CASCADE_DEPTH
          /\ RootFeed \in Range(feedChildren[gorder[i][1]])
    /\ Len(gresult) = 2

\* the sources read so far
SourcesRead == { gorder[i][1] : i \in 1..Len(gorder) }

\* C19: a source whose fetch fails is skipped in merge mode: the traversal
\* is never ended by it, and when it is over the list holds the keys of every
\* readable source that readable sources lead to, and main goes on with that
\* list. With stop_on_error (load_keys_with_cascade) the failure ends the
\* traversal at the failing source, and in single mode a list that cannot be
\* loaded ends the program with exit status 1
C19_FetchFailure ==
    /\ mode = "merge" =>
          /\ gpc \in {"loop", "done"}
          /\ gpc = "done" =>
                /\ SourcesRead = Within(MAX_CASCADE_DEPTH)
                /\ NormsOf(gresult)
                     = UNION { NormsOf(parse_proxy_lines(feedText[f])) :
                                 f \in Within(MAX_CASCADE_DEPTH) \ fails }
                /\ gresult # << >> => (keys = gresult /\ exitcode = -1)
    /\ mode = "cascade" =>
          /\ gpc = "raised" <=> SourcesRead \cap fails # {}
          /\ gpc = "raised" => gorder[Len(gorder)][1] \in fails
    /\ (mode = "single" /\ RootFeed \in fails /\ npc # "start") =>
          (npc = "exited" /\ exitcode = 1 /\ keys = << >>)

\* a finished merge in which a source failed, sources queued behind it were
\* still read and their keys are in the list main goes on with
C19_Witness ==
    /\ mode = "merge" /\ gpc = "done"
    /\ \E i \in 1..Len(gorder) : gorder[i][1] \in fails /\ i < Len(gorder)
    /\ Len(gresult) = 2
    /\ keys = gresult

\* the requests of the URL that succeeded: one of the attempts sent for it
\* got a valid response in time
SucceededRequests ==
    { r \in 0..(REQUESTS_PER_URL - 1) :
        \E a \in 0..MAX_RETRIES : << r, a >> \in made /\ outcome[r][a] = "valid" }

\* C20: when the requests to a URL are over, the URL is counted successful
\* iff the number of its requests that succeeded, each request counted once,
\* is at least MIN_SUCCESSFUL_REQUESTS
C20_UrlSuccessRule ==
    rpc = "url_done" =>
        (url_successful <=> Cardinality(SucceededRequests) >= MIN_SUCCESSFUL_REQUESTS)

\* C21: a request is attempted at most MAX_RETRIES + 1 times, and an attempt
\* after the first is sent only when the attempt before it ended in a
\* connection error; a valid response, another error, a response that is not
\* valid and a response slower than MAX_RESPONSE_TIME end the retries
C21_RetryOnlyOnConnectionError ==
    \A ra \in made :
       /\ ra[2] <= MAX_RETRIES
       /\ ra[2] > 0 => outcome[ra[1]][ra[2] - 1] = "conn_error"

\* the configuration asks for every URL
StrictAll == STRICT_MODE /\ STRICT_MODE_REQUIRE_ALL

\* a finished round passed: every URL successful (strict-all) or at least
\* MIN_SUCCESSFUL_URLS successful, and under REQUIRE_HTTPS a successful
\* HTTPS URL
RoundPassed(res) ==
    /\ IF StrictAll THEN \A u \in 1..Len(all_urls) : res[u] = "ok"
       ELSE CountOk(res) >= MIN_SUCCESSFUL_URLS
    /\ REQUIRE_HTTPS => \E u \in UrlsOfType("https") : res[u] = "ok"

\* C22: in normal mode, with the geolocation and average-time gates off, the
\* verdict of a probe is live iff all STABILITY_CHECKS rounds were run and
\* each passed, a round passing iff (strict-all: every URL is successful;
\* else: at least MIN_SUCCESSFUL_URLS URLs are) and (REQUIRE_HTTPS is off or
\* an HTTPS URL is successful); and the verdict of each round recorded in
\* stability_results is that of the rule
C22_RoundAndStabilityRule ==
    /\ Len(stability_results) = Len(round_log)
    /\ \A r \in 1..Len(round_log) : stability_results[r] <=> RoundPassed(round_log[r])
    /\ vpc = "returned" =>
          (is_available = "live" <=>
              /\ Len(round_log) = STABILITY_CHECKS
              /\ \A r \in 1..Len(round_log) : RoundPassed(round_log[r]))

\* two rounds were run with three URLs, MIN_SUCCESSFUL_URLS = 2 and no
\* strict mode; the first round ended early after two successful URLs, in
\* the second the first URL failed and the other two were successful, and
\* the key is live
C22_Witness ==
    /\ vpc = "returned" /\ is_available = "live"
    /\ STABILITY_CHECKS = 2 /\ ~STRICT_MODE /\ MIN_SUCCESSFUL_URLS = 2
    /\ Len(all_urls) = 3
    /\ round_log[1] = << "ok", "ok", "unvisited" >>
    /\ round_log[2] = << "fail", "ok", "ok" >>

\* the attempts issued so far (attempts are numbered from 0)
Issued == 0..(total_requests - 1)

\* an attempt passes under a limit: a valid response, not slower than the
\* limit when the limit is positive
Passes(a, limit) == gets[a].ok /\ ~(limit > 0 /\ gets[a].elapsed > limit)

\* the rule of the strict test under a limit: at most max(1, STRONG_ATTEMPTS)
\* GETs; every attempt before the last issued passed; the key is dead as soon
\* as an attempt does not pass, total_requests counting the attempts issued
\* so far; the key is live iff max(1, STRONG_ATTEMPTS) attempts were issued
\* and all passed
StrongRule(limit) ==
    /\ total_requests <= Max(1, STRONG_ATTEMPTS)
    /\ \A a \in Issued : a < total_requests - 1 => Passes(a, limit)
    /\ (spc # "returned" /\ total_requests > 0) => Passes(total_requests - 1, limit)
    /\ spc = "returned" =>
          /\ strong_result = "dead" <=> ~Passes(total_requests - 1, limit)
          /\ strong_result = "live" <=>
                /\ total_requests = Max(1, STRONG_ATTEMPTS)
                /\ \A a \in Issued : Passes(a, limit)

\* C23 as stated: the limit on the elapsed time of an attempt is
\* STRONG_MAX_RESPONSE_TIME when it is positive, and there is none otherwise
C23_StrongRuleAsStated == StrongRule(STRONG_MAX_RESPONSE_TIME)

\* C23: in the strict test at most max(1, STRONG_ATTEMPTS) GETs are issued,
\* one after the other and none repeated; the first attempt that fails, or
\* whose elapsed time exceeds the limit, makes the key dead at once with
\* total_requests equal to the number of attempts issued so far; the key is
\* live iff all attempts pass. The limit is STRONG_MAX_RESPONSE_TIME when it
\* is positive, else MAX_RESPONSE_TIME when that is positive
C23_StrongRule ==
    StrongRule(IF STRONG_MAX_RESPONSE_TIME > 0 THEN STRONG_MAX_RESPONSE_TIME
               ELSE MAX_RESPONSE_TIME)

\* STRONG_ATTEMPTS = 3 and the second attempt fails: dead, total_requests = 2
C23_Witness ==
    /\ spc = "returned" /\ strong_result = "dead"
    /\ STRONG_ATTEMPTS = 3
    /\ gets[0].ok /\ ~gets[1].ok
    /\ total_requests = 2

\* C24: for a hysteria or hysteria2 key check_key_e2e only connects over TCP:
\* it leases no port, starts no relay and writes no scratch file; when the
\* connect succeeds the verdict is live and response_times is the connect
\* latency alone; and with caching enabled the verdict, live or dead, is
\* written to the cache
C24_HysteriaTcpOnly ==
    [][\A k \in Keys :
         (program = "check" /\ pc[k] = "queued" /\ how'[k] = "tcp")
           => /\ pc'[k] = "done"
              /\ result'[k] \in {"live", "dead"}
              /\ port'[k] = NoPort /\ proc'[k] = "none" /\ file'[k] = "none"
              /\ port_pool' = port_pool
              /\ active_processes' = active_processes
              /\ returns' = returns
              /\ result'[k] = "live" => metrics_response_times'[k] = "tcp"
              /\ result'[k] = "dead" => metrics_response_times'[k] = "empty"
              /\ cacheOn => cache'[k] = [result |-> result'[k], timestamp |-> now]]_vars

\* a hysteria key found reachable: live, its connect latency recorded, the
\* verdict in the cache, no port and no relay
C24_Witness ==
    \E k \in Keys :
      /\ pc[k] = "done" /\ how[k] = "tcp" /\ result[k] = "live"
      /\ metrics_response_times[k] = "tcp"
      /\ cacheOn /\ cache[k].result = "live"
      /\ port[k] = NoPort /\ proc[k] = "none"

\* C25: check_response_valid is true exactly when: for a generate_204 URL,
\* the status is 200 or 204 and the body holds at most 64 bytes; for any
\* other URL, the status is in [200, 400) and, if min_size > 0, the body
\* holds at least min_size bytes
C25_ResponseValidRule ==
    valid # "none" =>
        (valid = "true" <=>
            IF url_generate_204
            THEN status_code \in {200, 204} /\ content_len <= 64
            ELSE /\ 200 <= status_code /\ status_code < 400
                 /\ min_size > 0 => content_len >= min_size)

\* the number of entries of a list equal to x
Occurrences(list, x) == Cardinality({ i \in 1..Len(list) : list[i] = x })

\* the number of candidates checked so far that name `link` and were found
\* alive with a latency of at most MAX_LATENCY_MS
FastChecks(link) ==
    Cardinality({ i \in 1..Len(verdicts) : keys[i] = link /\ verdicts[i] = "live" })

\* C26: a key whose probe passed but whose latency exceeds MAX_LATENCY_MS is
\* never written to the primary or to the top-100 file, be it the first key
\* (debug slot) or a later one: a link is held by `available` and by each of
\* the two files at most as many times as a check of it ended alive within
\* MAX_LATENCY_MS, and every latency held by `available` is within the limit
C26_SlowKeyOmitted ==
    /\ \A i \in 1..Len(available) : available[i][2] <= MAX_LATENCY_MS
    /\ \A link \in Links :
         /\ Occurrences(Lines_of(available), link) = FastChecks(link)
         /\ Occurrences(outfile, link) <= FastChecks(link)
         /\ Occurrences(top100file, link) <= FastChecks(link)

\* a finished run whose first key, checked in the debug slot, and whose third
\* key, checked from the pool, were alive but too slow, the second one being
\* listed
C26_Witness ==
    /\ npc = "done" /\ debugFirst
    /\ Len(verdicts) = 3
    /\ verdicts[1] = "slow" /\ verdicts[2] = "live" /\ verdicts[3] = "slow"
    /\ outfile = << keys[2] >> /\ top100file = << keys[2] >>

\* the orders in which n entries can be listed
Orders(n) == { f \in [1..n -> 1..n] : \A i, j \in 1..n : f[i] = f[j] => i = j }

\* C27: the primary file lists the live keys (the entries of `available`,
\* each once) in non-decreasing order of latency, and the top-100 file is
\* the first min(TOP100, n) lines of the primary file
C27_SortedOutput ==
    (npc = "done" /\ available # << >>) =>
        /\ \E f \in Orders(Len(available)) :
              /\ outfile = [ i \in 1..Len(available) |-> available[f[i]][1] ]
              /\ \A i \in 1..(Len(available) - 1) :
                    available[f[i]][2] <= available[f[i + 1]][2]
        /\ top100file = SubSeq(outfile, 1, Min(TOP100, Len(outfile)))

\* three distinct keys were found alive, the second faster than the first:
\* the primary file starts with the second, and the top list holds two lines
C27_Witness ==
    /\ npc = "done"
    /\ Len(available) = 3
    /\ available[1][2] > available[2][2]
    /\ available[1][1] # available[2][1]
    /\ outfile[1] = available[2][1]
    /\ Len(outfile) = 3 /\ Len(top100file) = 2

\* C28: when every key checked in a run is dead, the primary and the top-100
\* file are neither created nor modified, and the notworkers file is
\* rewritten and then holds every dead key (compared by normalized link)
C28_AllDead ==
    (npc = "done" /\ \A i \in 1..Len(verdicts) : verdicts[i] = "dead") =>
        /\ outfile = PreviousOutput /\ top100file = PreviousOutput
        /\ "output" \notin files_written /\ "top100" \notin files_written
        /\ "notworkers" \in files_written
        /\ \A i \in 1..Len(keys) :
              normalize_proxy_link(keys[i]) \in load_notworkers(nwfile)

\* a finished run of two distinct keys, both dead, neither of them in the
\* notworkers file at startup
C28_Witness ==
    /\ npc = "done" /\ mode = "single"
    /\ verdicts = << "dead", "dead" >>
    /\ normalize_proxy_link(keys[1]) # normalize_proxy_link(keys[2])
    /\ nwstart = {}
    /\ Len(nwfile) = 2

\* ingestion yields no key: the list read at startup (the notworkers file in
\* notworkers mode) was read and holds no key
EmptyInput ==
    /\ ~(mode = "single" /\ RootFeed \in fails)
    /\ IF mode = "notworkers" THEN load_keys_from_file(nwfile) = << >>
       ELSE parse_proxy_lines(text) = << >>

\* C29: when ingestion yields no key the program exits with code 0 and writes
\* no output, cache or notworkers file, in each MODE
C29_EmptyInputExitsZero ==
    (npc # "start" /\ EmptyInput) =>
        /\ npc = "exited" /\ exitcode = 0
        /\ files_written = {}
        /\ outfile = PreviousOutput /\ top100file = PreviousOutput

\* the kind of score the ranking of a run assumes
ExpectedKind ==
    IF SPEED_TEST_MODE \in {"quick", "full"} THEN "mbps"
    ELSE IF SPEED_TEST_METRIC = "throughput" THEN "inverse"
    ELSE "latency"

\* C30: every score returned by speed_test_key is of the kind the ranking of
\* the run assumes, for keys of every protocol: the download speed in Mbps
\* when the mode is quick or full, 100000 / L when the mode is latency and
\* the metric throughput, the average latency L otherwise; and the results
\* are sorted descending exactly when the scores are speeds or inverse
\* latencies
C30_ScoreKind ==
    /\ \A i \in 1..Len(score_kinds) : score_kinds[i] = ExpectedKind
    /\ reverse # "none" => (reverse <=> ExpectedKind \in {"mbps", "inverse"})

\* the keys of a text: its stripped lines that start with the scheme, in order
RECURSIVE KeyList(_)
KeyList(txt) ==
    IF txt = << >> THEN << >>
    ELSE LET ends == { j \in 1..Len(txt) : txt[j] \in LineBreaks }
             cut == IF ends = {} THEN Len(txt) + 1
                    ELSE CHOOSE j \in ends : \A k \in ends : j <= k
             line == strip(SubSeq(txt, 1, cut - 1))
             rest == KeyList(SubSeq(txt, cut + 1, Len(txt)))
         IN  IF StartsWithScheme(line) THEN << line >> \o rest ELSE rest

\* C31: a feed body that is the Base64 encoding (standard or URL-safe
\* alphabet, padded or not) of a text whose lines are proxy URIs ingests to
\* the key list of that text, and a body that already holds scheme lines is
\* never Base64-decoded
C31_Base64Transparent ==
    sub_pc = "done" =>
        /\ sub_sent # "plain" => KeyList(sub_result) = KeyList(sub_plain)
        /\ sub_sent = "plain" => (~sub_tried /\ sub_result = sub_text)

\* C32: with STRICT_MODE false, the iteration over the URLs of a round stops
\* right after a URL, others remaining, iff the count of successful URLs has
\* reached MIN_SUCCESSFUL_URLS and REQUIRE_HTTPS is false or an HTTPS URL is
\* successful in this round; with STRICT_MODE true every URL is probed in
\* every round
C32_ShortCircuit ==
    [][ /\ (vpc = "url" /\ uidx < Len(all_urls)) =>
              ((vpc' = "round_end") <=>
                  /\ ~STRICT_MODE
                  /\ successful_urls_count' >= MIN_SUCCESSFUL_URLS
                  /\ \/ ~REQUIRE_HTTPS
                     \/ \E u \in UrlsOfType("https") : url_results'[u] = "ok")
        /\ (vpc = "round_end" /\ STRICT_MODE) =>
              \A u \in 1..Len(all_urls) : url_results[u] # "unvisited"
      ]_vars

\* under REQUIRE_HTTPS with one successful URL asked for, the first URL (HTTP)
\* succeeded and the iteration went on; it stopped after the second (HTTPS)
\* succeeded, the third left unvisited
C32_Witness ==
    /\ ~STRICT_MODE /\ REQUIRE_HTTPS /\ MIN_SUCCESSFUL_URLS = 1
    /\ vpc = "round_end"
    /\ Len(all_urls) = 3
    /\ 1 \notin UrlsOfType("https") /\ 2 \in UrlsOfType("https")
    /\ url_results = << "ok", "ok", "unvisited" >>

\* C33: with TEST_POST_REQUESTS the POST probe is an observation and not a
\* gate: two executions of a check that differ only in what the POST does
\* (the results of the URLs are the same) return the same verdict
C33_PostIsObservation ==
    (TEST_POST_REQUESTS /\ \A e \in Executions : ppc[e] = "done") =>
        verdict_alive[1] = verdict_alive[2]

\* C34: when a check in normal mode has completed all its rounds and reached
\* the final count, metrics.successful_urls is the number of URLs successful
\* in the last round, and metrics.failed_urls the number of the other URLs
C34_LastRoundCounts ==
    (/\ vpc = "returned"
     /\ Len(round_log) = STABILITY_CHECKS
     /\ \A r \in 1..Len(stability_results) : stability_results[r]) =>
        /\ metrics_successful_urls = CountOk(round_log[Len(round_log)])
        /\ metrics_failed_urls = Len(all_urls) - CountOk(round_log[Len(round_log)])

\* C35: the removal of a probe's entry from active_processes tolerates the
\* entry having been removed by the interrupt handler: the step that removes
\* the entry before a return leaves the verdict of the probe as it was
C35_RemoveTolerant ==
    [][ \A k \in Keys :
          (pc[k] = "dereg" /\ pc'[k] # "dereg") => result'[k] = result[k] ]_vars

QueuedSources == [ i \in 1..Len(gqueue) |-> gqueue[i][1] ]

\* C37: during one cascading traversal each source, by its normalized
\* identifier, is read at most once; a child that is visited or already in
\* the queue is not queued again, so the queue holds no source twice, holds
\* no visited source, and `scheduled` names exactly the queued sources; and
\* no source deeper than the depth limit is queued or read
C37_OncePerSource ==
    gpc # "off" =>
        /\ \A i, j \in 1..Len(gorder) : gorder[i][1] = gorder[j][1] => i = j
        /\ { gorder[i][1] : i \in 1..Len(gorder) } = gvisited
        /\ \A i, j \in 1..Len(gqueue) : QueuedSources[i] = QueuedSources[j] => i = j
        /\ \A i \in 1..Len(gqueue) : QueuedSources[i] \notin gvisited
        /\ gscheduled = { QueuedSources[i] : i \in 1..Len(gqueue) }
        /\ \A i \in 1..Len(gorder) : gorder[i][2] <= MAX_CASCADE_DEPTH
        /\ \A i \in 1..Len(gqueue) : gqueue[i][2] <= MAX_CASCADE_DEPTH

\* the place of a source in the order of reading, 0 when it was not read
ReadAt(f) ==
    IF \E n \in 1..Len(gorder) : gorder[n][1] = f
    THEN CHOOSE n \in 1..Len(gorder) : gorder[n][1] = f
    ELSE 0

\* a finished traversal in which a source referred back to a source read
\* before it, a source referred to a source that an earlier source had
\* already put in the queue, and a source was read at the depth limit
C37_Witness ==
    /\ gpc = "done"
    /\ fails = {}
    /\ \E f \in gvisited : \E i \in 1..Len(feedChildren[f]) :
          /\ ReadAt(feedChildren[f][i]) > 0
          /\ ReadAt(feedChildren[f][i]) < ReadAt(f)
    /\ \E f, g \in gvisited : \E i \in 1..Len(feedChildren[f]) :
          \E j \in 1..Len(feedChildren[g]) :
             /\ feedChildren[f][i] = feedChildren[g][j]
             /\ ReadAt(f) < ReadAt(g)
             /\ ReadAt(g) < ReadAt(feedChildren[g][j])
    /\ \E n \in 1..Len(gorder) : gorder[n][2] = MAX_CASCADE_DEPTH

\* the probes that hold a port lease or are about to release one
InFlight == { k \in Keys : pc[k] \in RunningPcs }

\* C38: in a run without interrupt take_port never finds the pool empty: at
\* most MAX_WORKERS probes are in flight at any time, and no probe has ended
\* for want of a free port
C38_PortAlwaysAvailable ==
    signals = 0 =>
        /\ Cardinality(InFlight) <= MAX_WORKERS
        /\ \A k \in Keys : how[k] # "noport"

\* STABILITY_CHECKS * (U * REQUESTS_PER_URL * (MAX_RETRIES + 1) + p), with U
\* the number of test URLs and p = 1 under TEST_POST_REQUESTS
NormalBudget ==
    STABILITY_CHECKS
      * (Len(all_urls) * REQUESTS_PER_URL * (MAX_RETRIES + 1)
           + (IF TEST_POST_REQUESTS THEN 1 ELSE 0))

C40_FullLinesPreserved ==
    [][ (npc = "check" /\ npc' = "done" /\ "notworkers" \in files_written') =>
          LET old == load_notworkers(nwfile)
              passed == { normalize_proxy_link(l) : l \in passed_links }
              W == nwfile'
          IN  /\ \A i \in 1..Len(W) : IsProxyLine(W[i])
              /\ \A i, j \in 1..Len(W) :
                    i < j => normalize_proxy_link(W[i])[1] < normalize_proxy_link(W[j])[1]
              /\ \A n \in old \ passed :
                    \E i \in 1..Len(W) :
                       /\ normalize_proxy_link(W[i]) = n
                       /\ W[i] \in Range(nwfile)
              /\ \A i \in 1..Len(W) :
                    normalize_proxy_link(W[i]) \notin old =>
                       /\ W[i] \in Range(keys)
                       /\ W[i] \in all_metrics \ passed_links
    ]_vars

\* a finished run that rewrote the file: the entry of the first key, which no
\* check of this run touched, is there with its fragment, followed by a key
\* of this run that did not pass, with the fragment of its input line
C40_Witness ==
    /\ npc = "done"
    /\ "notworkers" \in files_written
    /\ nwstart = { << 1, 0 >> }
    /\ \A l \in all_metrics : l[1] # 1
    /\ << 2, 1 >> \in all_metrics
    /\ nwfile = << << 1, 1 >>, << 2, 1 >> >>

====
